---------------------------- MODULE Spec2Model ----------------------------
(***************************************************************************)
(* Model of the XXTEA cipher of src/bodas/xxtea.gs and of the decrypt-and- *)
(* match protocol of processGuestData (src/script.js, src/bodas/script.js).*)
(*                                                                         *)
(* A 32-bit word is kept as JavaScript keeps it after a bitwise operator:  *)
(* a signed integer in -2^31 .. 2^31-1.  Sums that would leave that range  *)
(* are computed on 16-bit halves, so every operator below is exact         *)
(* modulo 2^32.  A string is the sequence of its character codes (ASCII),  *)
(* a Base64 text the sequence of its symbols: 0..63 the alphabet, 64 the   *)
(* padding character '=', 65 a character outside the alphabet.             *)
(***************************************************************************)
EXTENDS Integers, Sequences, FiniteSets, TLC

(***************************************************************************)
(* 32-bit arithmetic of the JavaScript operators the code uses             *)
(***************************************************************************)
Lo16(x) == x % 65536

Hi16(x) == (x \div 65536) % 65536

\* ToInt32 of the unsigned value hi * 2^16 + lo
Word(hi, lo) == IF hi >= 32768 THEN (hi - 65536) * 65536 + lo ELSE hi * 65536 + lo

Pow2 == [s \in 0..16 |-> CASE s = 0 -> 1 [] s = 1 -> 2 [] s = 2 -> 4 [] s = 3 -> 8
                           [] s = 4 -> 16 [] s = 5 -> 32 [] s = 6 -> 64 [] s = 7 -> 128
                           [] s = 8 -> 256 [] s = 9 -> 512 [] s = 10 -> 1024
                           [] s = 11 -> 2048 [] s = 12 -> 4096 [] s = 13 -> 8192
                           [] s = 14 -> 16384 [] s = 15 -> 32768 [] OTHER -> 65536]

XorNib == [a \in 0..15 |-> [b \in 0..15 |->
             ((a + b) % 2) + 2 * (((a \div 2) + (b \div 2)) % 2)
             + 4 * (((a \div 4) + (b \div 4)) % 2) + 8 * (((a \div 8) + (b \div 8)) % 2)]]

AndNib == [a \in 0..15 |-> [b \in 0..15 |->
             ((a % 2) * (b % 2)) + 2 * (((a \div 2) % 2) * ((b \div 2) % 2))
             + 4 * (((a \div 4) % 2) * ((b \div 4) % 2)) + 8 * ((a \div 8) * (b \div 8))]]

Xor16(a, b) == XorNib[a % 16][b % 16] + 16 * XorNib[(a \div 16) % 16][(b \div 16) % 16]
               + 256 * XorNib[(a \div 256) % 16][(b \div 256) % 16]
               + 4096 * XorNib[a \div 4096][b \div 4096]

And16(a, b) == AndNib[a % 16][b % 16] + 16 * AndNib[(a \div 16) % 16][(b \div 16) % 16]
               + 256 * AndNib[(a \div 256) % 16][(b \div 256) % 16]
               + 4096 * AndNib[a \div 4096][b \div 4096]

\* a ^ b
BitXor(a, b) == Word(Xor16(Hi16(a), Hi16(b)), Xor16(Lo16(a), Lo16(b)))

\* a & b
BitAnd(a, b) == Word(And16(Hi16(a), Hi16(b)), And16(Lo16(a), Lo16(b)))

\* a | b
BitOr(a, b) == Word(Hi16(a) + Hi16(b) - And16(Hi16(a), Hi16(b)),
                    Lo16(a) + Lo16(b) - And16(Lo16(a), Lo16(b)))

\* a << s, 0 <= s <= 31
Shl(a, s) ==
    IF s < 16
    THEN Word((Hi16(a) * Pow2[s] + (Lo16(a) * Pow2[s]) \div 65536) % 65536,
              (Lo16(a) * Pow2[s]) % 65536)
    ELSE Word((Lo16(a) * Pow2[s - 16]) % 65536, 0)

\* a >>> s, 0 <= s <= 31 (the operand of a following bitwise operator)
Ushr(a, s) ==
    IF s < 16
    THEN Word(Hi16(a) \div Pow2[s],
              (Lo16(a) \div Pow2[s]) + (Hi16(a) % Pow2[s]) * Pow2[16 - s])
    ELSE Word(0, Hi16(a) \div Pow2[s - 16])

\* a faulty addition: the two halves are added apart and the carry is lost
Add32NoCarry(a, b) ==
    Word((Hi16(a) + Hi16(b)) % 65536, (Lo16(a) + Lo16(b)) % 65536)

\* (a + b) as the operand of a bitwise operator: the exact sum, then ToInt32
Add32(a, b) ==
    LET lo == Lo16(a) + Lo16(b)
        hi == Hi16(a) + Hi16(b) + (lo \div 65536)
    IN  Word(hi % 65536, lo % 65536)

\* (a - b) as the operand of a bitwise operator
Sub32(a, b) ==
    LET lo == Lo16(a) - Lo16(b)
        hi == Hi16(a) - Hi16(b) + (lo \div 65536)
    IN  Word(hi % 65536, lo % 65536)

\* var DELTA = 0x9E3779B9, as its two 16-bit halves 0x9E37 and 0x79B9
DELTA == Word(40503, 31161)

\* int32(i) == i & 0xFFFFFFFF for i already reduced to its 32-bit operand
int32(i) == BitAnd(i, Word(65535, 65535))

\* a faulty start of sum: q times the low half of DELTA
MulDeltaLow(q) == int32(Word(0, (q * Lo16(DELTA)) % 65536))

\* int32(q * DELTA) for a round count q (q * DELTA is exact in a double)
MulDelta(q) ==
    LET lo == q * Lo16(DELTA)
        hi == q * Hi16(DELTA) + (lo \div 65536)
    IN  int32(Word(hi % 65536, lo % 65536))


(***************************************************************************)
(* Byte/word codec: toUint32Array, toByteArray                             *)
(***************************************************************************)
\* the zero-filled array of n words built by the first loop of toUint32Array
RECURSIVE Zeros(_)
Zeros(n) == IF n <= 0 THEN <<>> ELSE Append(Zeros(n - 1), 0)

\* a faulty packing loop: the first byte of a word goes to its highest bits
RECURSIVE PackBytesBigEndian(_, _, _)
PackBytesBigEndian(v, bytes, i) ==
    IF i < Len(bytes)
    THEN PackBytesBigEndian([v EXCEPT ![(i \div 4) + 1] =
                        BitOr(@, Shl(BitAnd(bytes[i + 1], 255), 24 - Shl(BitAnd(i, 3), 3)))],
                   bytes, i + 1)
    ELSE v

\* the packing loop: v[i >> 2] |= (bytes[i] & 0xFF) << ((i & 3) << 3), i = from..length-1
RECURSIVE PackBytes(_, _, _)
PackBytes(v, bytes, i) ==
    IF i < Len(bytes)
    THEN PackBytes([v EXCEPT ![(i \div 4) + 1] =
                        BitOr(@, Shl(BitAnd(bytes[i + 1], 255), Shl(BitAnd(i, 3), 3)))],
                   bytes, i + 1)
    ELSE v

\* a faulty toUint32Array: the trailing word holds the word count n
toUint32ArrayTagWords(bytes, includeLength) ==
    LET length == Len(bytes)
        n == IF BitAnd(length, 3) # 0 THEN (length \div 4) + 1 ELSE length \div 4
        v == IF includeLength THEN Append(Zeros(n), n) ELSE Zeros(n)
    IN  PackBytes(v, bytes, 0)

toUint32Array(bytes, includeLength) ==
    LET length == Len(bytes)
        n == IF BitAnd(length, 3) # 0 THEN (length \div 4) + 1 ELSE length \div 4
        v == IF includeLength THEN Append(Zeros(n), length) ELSE Zeros(n)
    IN  PackBytes(v, bytes, 0)

\* the unpacking loop: bytes.push((v[i >> 2] >>> ((i & 3) << 3)) & 0xFF), i = 0..n-1
RECURSIVE UnpackBytes(_, _)
UnpackBytes(v, n) ==
    IF n <= 0 THEN <<>>
    ELSE Append(UnpackBytes(v, n - 1),
                BitAnd(Ushr(v[((n - 1) \div 4) + 1], Shl(BitAnd(n - 1, 3), 3)), 255))

\* a faulty toByteArray: a trailing word out of range is ignored and every
\* byte of the words before it is returned
toByteArrayLenient(v, includeLength) ==
    LET length == Len(v)
        n == length * 4
    IN  IF ~includeLength THEN [kind |-> "ok", bytes |-> UnpackBytes(v, n)]
        ELSE IF length = 0 THEN [kind |-> "ok", bytes |-> <<>>]
        ELSE LET m == v[length]
             IN  IF (m < (n - 4) - 3) \/ (m > n - 4)
                 THEN [kind |-> "ok", bytes |-> UnpackBytes(v, n - 4)]
                 ELSE [kind |-> "ok", bytes |-> UnpackBytes(v, m)]

\* a faulty toByteArray: without a length word the zero bytes that end the
\* last word are taken for padding and left out
toByteArrayTrimmed(v, includeLength) ==
    LET length == Len(v)
        n == length * 4
    IN  IF ~includeLength
        THEN [kind |-> "ok",
              bytes |-> UnpackBytes(v, IF length = 0 THEN 0
                                       ELSE IF v[length] = 0 THEN n - 4
                                       ELSE IF Ushr(v[length], 8) = 0 THEN n - 3
                                       ELSE IF Ushr(v[length], 16) = 0 THEN n - 2
                                       ELSE IF Ushr(v[length], 24) = 0 THEN n - 1
                                       ELSE n)]
        ELSE IF length = 0 THEN [kind |-> "ok", bytes |-> <<>>]
        ELSE LET m == v[length]
             IN  IF (m < (n - 4) - 3) \/ (m > n - 4)
                 THEN [kind |-> "null", bytes |-> <<>>]
                 ELSE [kind |-> "ok", bytes |-> UnpackBytes(v, m)]

\* The result is a record: kind "ok" with the bytes, or kind "null".
\* With includeLength and an empty v, m = v[-1] is undefined: both comparisons
\* are false, n becomes undefined and the loop body never runs.
toByteArray(v, includeLength) ==
    LET length == Len(v)
        n == length * 4
    IN  IF ~includeLength THEN [kind |-> "ok", bytes |-> UnpackBytes(v, n)]
        ELSE IF length = 0 THEN [kind |-> "ok", bytes |-> <<>>]
        ELSE LET m == v[length]
             IN  IF (m < (n - 4) - 3) \/ (m > n - 4)
                 THEN [kind |-> "null", bytes |-> <<>>]
                 ELSE [kind |-> "ok", bytes |-> UnpackBytes(v, m)]

(***************************************************************************)
(* Block transform: mx, fixk, encryptUint32Array, decryptUint32Array       *)
(***************************************************************************)
\* k[i]; an index past the end reads undefined, which ^ treats as 0
KeyWord(k, i) == IF i < Len(k) THEN k[i + 1] ELSE 0

\* a faulty index: p & 3 and e added instead of combined with ^
KeyIndexSum(p, e) == BitAnd(p, 3) + e

\* the index p & 3 ^ e of the key word mx reads
KeyIndex(p, e) == BitXor(BitAnd(p, 3), e)

mx(sum, y, z, p, e, k) ==
    BitXor(Add32(BitXor(Ushr(z, 5), Shl(y, 2)), BitXor(Ushr(y, 3), Shl(z, 4))),
           Add32(BitXor(sum, y), BitXor(KeyWord(k, KeyIndex(p, e)), z)))

\* a faulty fixk: the padding loop stops one word short
RECURSIVE fixkThree(_)
fixkThree(k) == IF Len(k) < 3 THEN fixkThree(Append(k, 0)) ELSE k

RECURSIVE fixk(_)
fixk(k) == IF Len(k) < 4 THEN fixk(Append(k, 0)) ELSE k

\* a faulty round count: 52 / length rounded up
RoundsRoundedUp(length) == 6 + ((52 + length - 1) \div length)

\* a faulty round count: an array of a single word is returned as it is
RoundsOrNone(length) == IF length < 2 THEN 0 ELSE 6 + (52 \div length)

\* Math.floor(6 + 52 / length), length >= 1
Rounds(length) == 6 + (52 \div length)

\* e = sum >>> 2 & 3
RoundKey(sum) == BitAnd(Ushr(sum, 2), 3)

\* for (p = 0; p < n; ++p) { y = v[p + 1]; z = v[p] = int32(v[p] + mx(...)); }
RECURSIVE EncWords(_, _, _, _, _, _, _)
EncWords(v, z, sum, e, p, n, k) ==
    IF p < n
    THEN LET y == v[p + 2]
             w == int32(Add32(v[p + 1], mx(sum, y, z, p, e, k)))
         IN  EncWords([v EXCEPT ![p + 1] = w], w, sum, e, p + 1, n, k)
    ELSE [v |-> v, z |-> z]

\* One round of encryptUint32Array.  st holds the loop's variables: the
\* buffer v, z, sum and the rounds left q.
EncRound(st, n, k) ==
    LET sum == int32(Add32(st.sum, DELTA))
        e == RoundKey(sum)
        r == EncWords(st.v, st.z, sum, e, 0, n, k)
        y == r.v[1]
        w == int32(Add32(r.v[n + 1], mx(sum, y, r.z, n, e, k)))
    IN  [v |-> [r.v EXCEPT ![n + 1] = w], z |-> w, sum |-> sum, q |-> st.q - 1]

\* for (q = Math.floor(6 + 52 / length) | 0; q > 0; --q)
RECURSIVE EncRounds(_, _, _)
EncRounds(st, n, k) ==
    IF st.q > 0 THEN EncRounds(EncRound(st, n, k), n, k) ELSE st.v

\* a faulty encryptUint32Array: the last word is transformed and not returned
encryptUint32ArrayShort(v, k) ==
    LET length == Len(v)
    IN  IF length = 0 THEN v
        ELSE SubSeq(EncRounds([v |-> v, z |-> v[length], sum |-> 0, q |-> Rounds(length)],
                              length - 1, k), 1, length - 1)

\* An empty v has q = Infinity | 0 = 0 rounds.
encryptUint32Array(v, k) ==
    LET length == Len(v)
    IN  IF length = 0 THEN v
        ELSE EncRounds([v |-> v, z |-> v[length], sum |-> 0, q |-> Rounds(length)],
                       length - 1, k)

\* for (p = n; p > 0; --p) { z = v[p - 1]; y = v[p] = int32(v[p] - mx(...)); }
RECURSIVE DecWords(_, _, _, _, _, _)
DecWords(v, y, sum, e, p, k) ==
    IF p > 0
    THEN LET z == v[p]
             w == int32(Sub32(v[p + 1], mx(sum, y, z, p, e, k)))
         IN  DecWords([v EXCEPT ![p + 1] = w], w, sum, e, p - 1, k)
    ELSE [v |-> v, y |-> y]

\* One round of decryptUint32Array.  st holds the loop's variables: the
\* buffer v, y and sum.
DecRound(st, n, k) ==
    LET e == RoundKey(st.sum)
        r == DecWords(st.v, st.y, st.sum, e, n, k)
        z == r.v[n + 1]
        w == int32(Sub32(r.v[1], mx(st.sum, r.y, z, 0, e, k)))
    IN  [v |-> [r.v EXCEPT ![1] = w], y |-> w, sum |-> int32(Sub32(st.sum, DELTA))]

\* for (sum = int32(q * DELTA); sum !== 0; sum = int32(sum - DELTA))
RECURSIVE DecRounds(_, _, _)
DecRounds(st, n, k) ==
    IF st.sum # 0 THEN DecRounds(DecRound(st, n, k), n, k) ELSE st.v

\* a faulty decryptUint32Array: sum starts one round short
decryptOneRoundShort(v, k) ==
    LET length == Len(v)
    IN  IF length = 0 THEN v
        ELSE DecRounds([v |-> v, y |-> v[1], sum |-> MulDelta(Rounds(length) - 1)],
                       length - 1, k)

\* An empty v has q = Infinity and int32(Infinity) = 0: the loop is skipped.
decryptUint32Array(v, k) ==
    LET length == Len(v)
    IN  IF length = 0 THEN v
        ELSE DecRounds([v |-> v, y |-> v[1], sum |-> MulDelta(Rounds(length))],
                       length - 1, k)

(***************************************************************************)
(* Text and Base64 conversions of the platform (Utilities.newBlob,         *)
(* getDataAsString, base64Encode, base64Decode / atob)                     *)
(***************************************************************************)
\* the character the decoder emits for bytes that are not the UTF-8 form of a
\* character below U+0800 (U+FFFD, or a character of three or four bytes)
OtherChar == 65533

\* Utilities.newBlob(s).getBytes(): UTF-8 of characters below U+0800
RECURSIVE getBytes(_)
getBytes(str) ==
    IF str = <<>> THEN <<>>
    ELSE LET c == Head(str)
         IN  IF c < 128 THEN <<c>> \o getBytes(Tail(str))
             ELSE <<192 + (c \div 64), 128 + (c % 64)>> \o getBytes(Tail(str))

\* Utilities.newBlob(bytes).getDataAsString(): UTF-8 decoding
RECURSIVE getDataAsString(_)
getDataAsString(bytes) ==
    IF bytes = <<>> THEN <<>>
    ELSE LET b == Head(bytes)
         IN  IF b < 128 THEN <<b>> \o getDataAsString(Tail(bytes))
             ELSE IF b >= 194 /\ b < 224 /\ Len(bytes) >= 2
                     /\ bytes[2] >= 128 /\ bytes[2] < 192
             THEN <<(b - 192) * 64 + (bytes[2] - 128)>>
                  \o getDataAsString(Tail(Tail(bytes)))
             ELSE <<OtherChar>> \o getDataAsString(Tail(bytes))

\* Base64 symbols: 0..63 the alphabet ('+' is 62), then '=', a character
\* outside the alphabet, and the space
PadSym == 64

BadSym == 65

SpaceSym == 66

\* Utilities.base64Encode(bytes): standard alphabet, '=' padding
RECURSIVE base64Encode(_)
base64Encode(bytes) ==
    IF bytes = <<>> THEN <<>>
    ELSE IF Len(bytes) = 1
    THEN <<bytes[1] \div 4, (bytes[1] % 4) * 16, PadSym, PadSym>>
    ELSE IF Len(bytes) = 2
    THEN <<bytes[1] \div 4, (bytes[1] % 4) * 16 + (bytes[2] \div 16),
           (bytes[2] % 16) * 4, PadSym>>
    ELSE <<bytes[1] \div 4, (bytes[1] % 4) * 16 + (bytes[2] \div 16),
           (bytes[2] % 16) * 4 + (bytes[3] \div 64), bytes[3] % 64>>
         \o base64Encode(SubSeq(bytes, 4, Len(bytes)))

\* the symbols of a text that are not spaces
RECURSIVE StripSpaces(_)
StripSpaces(data) ==
    IF data = <<>> THEN <<>>
    ELSE IF Head(data) = SpaceSym THEN StripSpaces(Tail(data))
    ELSE <<Head(data)>> \o StripSpaces(Tail(data))

\* a text of length 0 mod 4 loses one or two trailing '='
StripPadding(data) ==
    IF Len(data) % 4 # 0 \/ data = <<>> THEN data
    ELSE IF data[Len(data)] # PadSym THEN data
    ELSE IF data[Len(data) - 1] # PadSym THEN SubSeq(data, 1, Len(data) - 1)
    ELSE SubSeq(data, 1, Len(data) - 2)

\* the bytes of a text of alphabet symbols; a last group of 2 or 3 symbols
\* yields 1 or 2 bytes and its spare bits are dropped
RECURSIVE DecodeSymbols(_)
DecodeSymbols(data) ==
    IF Len(data) < 2 THEN <<>>
    ELSE IF Len(data) = 2 THEN <<data[1] * 4 + (data[2] \div 16)>>
    ELSE IF Len(data) = 3
    THEN <<data[1] * 4 + (data[2] \div 16), (data[2] % 16) * 16 + (data[3] \div 4)>>
    ELSE <<data[1] * 4 + (data[2] \div 16), (data[2] % 16) * 16 + (data[3] \div 4),
           (data[3] % 4) * 64 + data[4]>>
         \o DecodeSymbols(SubSeq(data, 5, Len(data)))

\* a faulty decoder: it never rejects a text
base64DecodeUnchecked(data) ==
    [kind |-> "ok", bytes |-> DecodeSymbols(StripPadding(StripSpaces(data)))]

\* atob(data) / Utilities.base64Decode(data): kind "ok" with the bytes, or
\* kind "throw" for a text that is not Base64
base64Decode(data) ==
    LET t == StripPadding(StripSpaces(data))
    IN  IF Len(t) % 4 = 1 \/ (\E i \in 1..Len(t) : t[i] > 63)
        THEN [kind |-> "throw", bytes |-> <<>>]
        ELSE [kind |-> "ok", bytes |-> DecodeSymbols(t)]

(***************************************************************************)
(* encryptToBase64, decryptFromBase64 and the spreadsheet wrappers         *)
(***************************************************************************)
\* k = toUint32Array(keyBytes, false), handed to the transform as fixk(k)
KeyOf(key) == fixk(toUint32Array(getBytes(key), FALSE))

\* encryptedV of encryptToBase64: v = toUint32Array(dataBytes, true), encrypted
EncryptedV(data, key) == encryptUint32Array(toUint32Array(getBytes(data), TRUE), KeyOf(key))

encryptToBase64(data, key) == base64Encode(toByteArray(EncryptedV(data, key), FALSE).bytes)

\* The result is a record: kind "ok" with the string, kind "null" (the
\* integrity check failed) or kind "throw" (base64Decode raised).
\* "if (decryptedBytes === null) return null;" and the string of the bytes
DecryptedString(decryptedBytes) ==
    IF decryptedBytes.kind = "null" THEN [kind |-> "null", str |-> <<>>]
    ELSE [kind |-> "ok", str |-> getDataAsString(decryptedBytes.bytes)]

\* the statements of decryptFromBase64 after base64Decode returned dataBytes
\* decryptedV of decryptFromBase64: v = toUint32Array(dataBytes, false), decrypted
DecryptedV(dataBytes, key) == decryptUint32Array(toUint32Array(dataBytes, FALSE), KeyOf(key))

DecryptBytes(dataBytes, key) == DecryptedString(toByteArray(DecryptedV(dataBytes, key), TRUE))

DecryptDecoded(decoded, key) ==
    IF decoded.kind = "throw" THEN [kind |-> "throw", str |-> <<>>]
    ELSE DecryptBytes(decoded.bytes, key)

decryptFromBase64(data, key) == DecryptDecoded(base64Decode(data), key)

\* a faulty XXTEA_ENCRYPT: the key is tested before the data
XXTEA_ENCRYPT_KeyFirst(data, key) ==
    IF key = <<>> THEN [kind |-> "error", str |-> <<>>]
    ELSE IF data = <<>> THEN [kind |-> "ok", str |-> <<>>]
    ELSE [kind |-> "ok", str |-> encryptToBase64(data, key)]

\* kind "ok" with the returned string, kind "error" for 'ERROR: Key is required.'
XXTEA_ENCRYPT(data, key) ==
    IF data = <<>> THEN [kind |-> "ok", str |-> <<>>]
    ELSE IF key = <<>> THEN [kind |-> "error", str |-> <<>>]
    ELSE [kind |-> "ok", str |-> encryptToBase64(data, key)]

\* a faulty XXTEA_DECRYPT: no try/catch and no test for null
PassedOnFailure(decrypted) == decrypted

\* kind "ok" with the returned string ('' after a null or a caught exception),
\* kind "error" for the 'ERROR: Key is required.' text
\* "return decrypted === null ? '' : decrypted" and "catch (e) { return ''; }"
EmptyOnFailure(decrypted) ==
    IF decrypted.kind = "ok" THEN decrypted ELSE [kind |-> "ok", str |-> <<>>]

XXTEA_DECRYPT(data, key) ==
    IF data = <<>> THEN [kind |-> "ok", str |-> <<>>]
    ELSE IF key = <<>> THEN [kind |-> "error", str |-> <<>>]
    ELSE EmptyOnFailure(decryptFromBase64(data, key))

(***************************************************************************)
(* State                                                                   *)
(***************************************************************************)
VARIABLES
    \* one run of encryptToBase64 followed by decryptFromBase64
    cpc,        \* the statement the run is at
    cdata,      \* the string given to encryptToBase64
    ckey,       \* the key string given to encryptToBase64
    dkey,       \* the key string given to decryptFromBase64
    cv,         \* the word array v
    ck,         \* the key array k after fixk
    ctext,      \* the Base64 text between the two calls
    cres,       \* what decryptFromBase64 returned
    cret,       \* what XXTEA_DECRYPT returned for the same text and key
    ctamper,    \* what happened to the text between the two calls
    \* the block transform and the codec applied to word arrays
    wpc, wv0, wk, wk2, wv, wv2, wres,
    wrejected,  \* the bits of the trailing word whose flip toByteArray refuses
    \* one run of processGuestData
    variant,    \* "root": src/script.js, "bodas": src/bodas/script.js
    code,       \* the code of the URL; <<>> when there is none
    sheet,      \* the private sheet the guest table was published from
    dataRows,   \* the rows of the guest table
    pc,         \* the statement processGuestData is at
    idx,        \* the row the scan is at
    guestRow,   \* the matched row, or NoRow
    examined,   \* the rows whose code cell was handed to the cipher, in order
    shown,      \* the sections left visible
    errored,    \* the catch block ran
    sectionsToShow, \* the sections the matched row grants
    eventKey,   \* the decrypted event key of the matched row
    spinnerHidden, navCalls,
    eventCsv,   \* the event table eventDataPromise resolved to
    eidx,       \* the row the loop of processEventDetails is at
 ecell,     \* the column of that row processEventDetails decrypts next
    esection,   \* sectionName of that row
    calls,      \* the calls of the cipher made so far, in order
    details,    \* the sections whose event details were written
    \* toUint32Array followed by toByteArray on one byte buffer
    bpc,        \* the call the run is at
    bbytes,     \* the byte buffer given to toUint32Array
    bflag,      \* includeLength of both calls
    bv,         \* what toUint32Array returned
    bres,       \* what toByteArray returned
    \* encryptUint32Array followed by decryptUint32Array, statement by statement
    rpc,        \* the statement the run is at
    rv0,        \* the word array given to encryptUint32Array
    rk,         \* the key array k
    rv,         \* the word array v being transformed in place
    ry, rz, rsum, re, rp, rq,   \* the locals y, z, sum, e, p, q
    rcount,     \* passes of the outer loop completed in the current call
    rinner      \* passes of the inner loop completed in the current round

cipherVars == <<cpc, cdata, ckey, dkey, cv, ck, ctext, cres, cret, ctamper>>

wordVars == <<wpc, wv0, wk, wk2, wv, wv2, wres, wrejected>>

pageVars == <<variant, code, sheet, dataRows, pc, idx, guestRow, examined, shown, errored,
              sectionsToShow, eventKey, spinnerHidden, navCalls, eventCsv, eidx, ecell,
              esection, calls, details>>

codecVars == <<bpc, bbytes, bflag, bv, bres>>

roundVars == <<rpc, rv0, rk, rv, ry, rz, rsum, re, rp, rq, rcount, rinner>>

vars == <<cipherVars, wordVars, pageVars, codecVars, roundVars>>

(***************************************************************************)
(* Bounds and input sets                                                   *)
(***************************************************************************)
\* longest string given to encryptToBase64
MaxLen == 4

\* characters of those strings: 'A' and the two-byte character U+00F1
DataChars == {65, 241}

RECURSIVE StringsUpTo(_, _)
StringsUpTo(chars, n) ==
    IF n = 0 THEN {<<>>}
    ELSE LET shorter == StringsUpTo(chars, n - 1)
         IN  shorter \cup {Append(t, c) : t \in {u \in shorter : Len(u) = n - 1}, c \in chars}

\* key strings of 0, 1, 4 and 5 words
KeyStrings == {<<>>, <<107>>,
               <<48, 49, 50, 51, 52, 53, 54, 55, 56, 57, 97, 98, 99, 100, 101, 102>>,
               <<48, 49, 50, 51, 52, 53, 54, 55, 56, 57, 97, 98, 99, 100, 101, 102, 88>>}

\* a different key string (its first word differs)
OtherKey(key) == <<75>> \o key

NoResult == [kind |-> "none", str |-> <<>>]

(***************************************************************************)
(* encryptToBase64 then decryptFromBase64, statement by statement          *)
(***************************************************************************)
\* encryptToBase64: v = toUint32Array(dataBytes, true); k = toUint32Array(keyBytes, false); fixk(k)
EncodeStep ==
    /\ cpc = "start"
    /\ cv' = toUint32Array(getBytes(cdata), TRUE)
    /\ ck' = fixk(toUint32Array(getBytes(ckey), FALSE))
    /\ cpc' = "encoded"
    /\ UNCHANGED <<cdata, ckey, dkey, ctext, cres, cret, ctamper>>
    /\ UNCHANGED <<wordVars, pageVars, codecVars, roundVars>>

\* encryptToBase64: encryptedV = encryptUint32Array(v, fixk(k))
EncryptStep ==
    /\ cpc = "encoded"
    /\ cv' = encryptUint32Array(cv, ck)
    /\ cpc' = "encrypted"
    /\ UNCHANGED <<cdata, ckey, dkey, ck, ctext, cres, cret, ctamper>>
    /\ UNCHANGED <<wordVars, pageVars, codecVars, roundVars>>

\* encryptToBase64: return Utilities.base64Encode(toByteArray(encryptedV, false))
StoreStep ==
    /\ cpc = "encrypted"
    /\ ctext' = base64Encode(toByteArray(cv, FALSE).bytes)
    /\ cpc' = "stored"
    /\ UNCHANGED <<cdata, ckey, dkey, cv, ck, cres, cret, ctamper>>
    /\ UNCHANGED <<wordVars, pageVars, codecVars, roundVars>>

\* the stored text with symbol i replaced by sym
Replace(text, i, sym) == [text EXCEPT ![i] = sym]

\* The stored text is damaged before it is read back: a character outside the
\* Base64 alphabet, or another alphabet character, takes the place of one symbol.
TamperStep ==
    /\ cpc = "stored"
    /\ ctamper = "none"
    /\ \/ /\ ctamper' = "badsym"
          /\ \E i \in {1, Len(ctext)} : ctext' = Replace(ctext, i, BadSym)
       \/ /\ ctamper' = "flip"
          /\ ctext' = Replace(ctext, 2, (ctext[2] + 1) % 64)
    /\ UNCHANGED <<cpc, cdata, ckey, dkey, cv, ck, cres, cret>>
    /\ UNCHANGED <<wordVars, pageVars, codecVars, roundVars>>

\* decryptFromBase64: dataBytes = Utilities.base64Decode(data), which raises
\* on a text that is not Base64; then v and k are built
LoadStep ==
    /\ cpc = "stored"
    /\ LET decoded == base64Decode(ctext)
       IN  IF decoded.kind = "throw"
           THEN /\ cres' = [kind |-> "throw", str |-> <<>>]
                /\ cpc' = "done"
                /\ UNCHANGED <<cv, ck>>
           ELSE /\ cv' = toUint32Array(decoded.bytes, FALSE)
                /\ ck' = fixk(toUint32Array(getBytes(dkey), FALSE))
                /\ cpc' = "loaded"
                /\ UNCHANGED cres
    /\ UNCHANGED <<cdata, ckey, dkey, ctext, cret, ctamper>>
    /\ UNCHANGED <<wordVars, pageVars, codecVars, roundVars>>

\* decryptFromBase64: decryptedV = decryptUint32Array(v, fixk(k))
DecryptStep ==
    /\ cpc = "loaded"
    /\ cv' = decryptUint32Array(cv, ck)
    /\ cpc' = "decrypted"
    /\ UNCHANGED <<cdata, ckey, dkey, ck, ctext, cres, cret, ctamper>>
    /\ UNCHANGED <<wordVars, pageVars, codecVars, roundVars>>

\* decryptFromBase64: decryptedBytes = toByteArray(decryptedV, true); null, or the string
DecodeStep ==
    /\ cpc = "decrypted"
    /\ cres' = DecryptedString(toByteArray(cv, TRUE))
    /\ cpc' = "done"
    /\ UNCHANGED <<cdata, ckey, dkey, cv, ck, ctext, cret, ctamper>>
    /\ UNCHANGED <<wordVars, pageVars, codecVars, roundVars>>

\* The sheet calls XXTEA_DECRYPT on the stored text, in place of
\* decryptFromBase64 or after it has returned.
WrapperCall ==
    /\ cpc \in {"stored", "done"}
    /\ cret' = XXTEA_DECRYPT(ctext, dkey)
    /\ cpc' = "returned"
    /\ UNCHANGED <<cdata, ckey, dkey, cv, ck, ctext, cres, ctamper>>
    /\ UNCHANGED <<wordVars, pageVars, codecVars, roundVars>>

\* the characters of 'ERROR: Key is required.' as a cell shows them
KeyRequiredText ==
    <<4, 17, 17, 14, 17, BadSym, SpaceSym, 10, 30, 50, SpaceSym, 34, 44, SpaceSym,
      43, 30, 42, 46, 34, 43, 30, 29, BadSym>>

\* the text a cell shows for what XXTEA_ENCRYPT returned
CellText(returned) == IF returned.kind = "error" THEN KeyRequiredText ELSE returned.str

\* a cell of the sheet holds =XXTEA_ENCRYPT(data, key)
SheetEncrypt ==
    /\ cpc = "start"
    /\ ctext' = CellText(XXTEA_ENCRYPT(cdata, ckey))
    /\ cpc' = "cell"
    /\ UNCHANGED <<cdata, ckey, dkey, cv, ck, cres, cret, ctamper>>
    /\ UNCHANGED <<wordVars, pageVars, codecVars, roundVars>>

\* another cell holds =XXTEA_DECRYPT(that cell, key)
SheetDecrypt ==
    /\ cpc = "cell"
    /\ cret' = XXTEA_DECRYPT(ctext, dkey)
    /\ cpc' = "read"
    /\ UNCHANGED <<cdata, ckey, dkey, cv, ck, ctext, cres, ctamper>>
    /\ UNCHANGED <<wordVars, pageVars, codecVars, roundVars>>

NextCipher ==
    \/ EncodeStep
    \/ EncryptStep
    \/ StoreStep
    \/ TamperStep
    \/ LoadStep
    \/ DecryptStep
    \/ DecodeStep
    \/ WrapperCall
    \/ SheetEncrypt
    \/ SheetDecrypt

(***************************************************************************)
(* The block transform applied to word arrays                              *)
(***************************************************************************)
\* longest word array given to the transform
MaxWords == 3

\* words of those arrays: 0xFFFFFFFF and 0x04030201
WordVals == {-1, 67305985}

RECURSIVE WordSeqsUpTo(_, _)
WordSeqsUpTo(vals, n) ==
    IF n = 0 THEN {<<>>}
    ELSE LET shorter == WordSeqsUpTo(vals, n - 1)
         IN  shorter \cup {Append(t, w) : t \in {u \in shorter : Len(u) = n - 1}, w \in vals}

\* the first four words of the keys, and what may follow them
KeyBase == <<1, -1, 2147483647, 305419896>>

KeyTails == {<<>>, <<7>>, <<-1, 9>>}

NoBytes == [kind |-> "none", bytes |-> <<>>]

\* encryptUint32Array(v, k) under each of the two keys
WEncrypt ==
    /\ wpc = "start"
    /\ wv' = encryptUint32Array(wv0, wk)
    /\ wv2' = encryptUint32Array(wv0, wk2)
    /\ wpc' = "encrypted"
    /\ UNCHANGED <<wv0, wk, wk2, wres, wrejected>>
    /\ UNCHANGED <<cipherVars, pageVars, codecVars, roundVars>>

\* decryptUint32Array(v, k) of the first ciphertext under each of the two keys
WDecrypt ==
    /\ wpc = "encrypted"
    /\ wv' = decryptUint32Array(wv, wk)
    /\ wv2' = decryptUint32Array(wv, wk2)
    /\ wpc' = "decrypted"
    /\ UNCHANGED <<wv0, wk, wk2, wres, wrejected>>
    /\ UNCHANGED <<cipherVars, pageVars, codecVars, roundVars>>

NextWords ==
    \/ WEncrypt
    \/ WDecrypt

(***************************************************************************)
(* The codec applied to word arrays                                        *)
(***************************************************************************)
\* longest word array given to toByteArray
MaxTagged == 3

\* words before the trailing word: 0x04030201 and 0xFFFEFDFC
BodyVals == {67305985, -66052}

\* trailing words: around every bound n4 - 3 and n4 for n4 = 0, 4, 8, 12, and
\* the two ends of the signed range
TagVals == (-5 .. 14) \cup {2147483647, -2147483647 - 1}

\* toByteArray(v, true)
DecodeTagged ==
    /\ wpc = "start"
    /\ wres' = toByteArray(wv0, TRUE)
    /\ wpc' = "decoded"
    /\ UNCHANGED <<wv0, wk, wk2, wv, wv2, wrejected>>
    /\ UNCHANGED <<cipherVars, pageVars, codecVars, roundVars>>

\* v with bit b of its trailing word flipped
FlipTag(v, b) == [v EXCEPT ![Len(v)] = BitXor(v[Len(v)], Shl(1, b))]

\* toByteArray(v, true) of each of the 32 arrays that differ from an accepted
\* v in one bit of the trailing word
DecodeFlipped ==
    /\ wpc = "decoded"
    /\ wres.kind = "ok"
    /\ Len(wv0) >= 1
    /\ wrejected' = {b \in 0 .. 31 : toByteArray(FlipTag(wv0, b), TRUE).kind = "null"}
    /\ wpc' = "flipped"
    /\ UNCHANGED <<wv0, wk, wk2, wv, wv2, wres>>
    /\ UNCHANGED <<cipherVars, pageVars, codecVars, roundVars>>

NextDecode ==
    \/ DecodeTagged
    \/ DecodeFlipped

(***************************************************************************)
(* The codec applied to byte buffers                                       *)
(***************************************************************************)
\* longest byte buffer given to toUint32Array
MaxBytes == 5

\* bytes of those buffers: 0x00, 0x01, 0x80 and 0xFF
ByteVals == {0, 1, 128, 255}

\* toUint32Array(bytes, includeLength)
Pack ==
    /\ bpc = "start"
    /\ bv' = toUint32Array(bbytes, bflag)
    /\ bpc' = "packed"
    /\ UNCHANGED <<bbytes, bflag, bres>>
    /\ UNCHANGED <<cipherVars, wordVars, pageVars, roundVars>>

\* toByteArray(v, includeLength) of the words toUint32Array returned
Unpack ==
    /\ bpc = "packed"
    /\ bres' = toByteArray(bv, bflag)
    /\ bpc' = "unpacked"
    /\ UNCHANGED <<bbytes, bflag, bv>>
    /\ UNCHANGED <<cipherVars, wordVars, pageVars, roundVars>>

NextCodec ==
    \/ Pack
    \/ Unpack

(***************************************************************************)
(* encryptUint32Array and decryptUint32Array, statement by statement       *)
(***************************************************************************)
\* longest word array whose rounds are followed
MaxRoundWords == 54

\* the array of n words w
RECURSIVE Fill(_, _)
Fill(w, n) == IF n <= 0 THEN <<>> ELSE Append(Fill(w, n - 1), w)

\* the arrays given to encryptUint32Array: the encoding of the empty string
\* with its length, and arrays of every length up to the bound
RoundInputs ==
    {toUint32Array(<<>>, TRUE)} \cup {Fill(w, n) : w \in WordVals, n \in 1 .. MaxRoundWords}

\* encryptUint32Array: "z = v[n]; sum = 0;" and the initialisation of q
EncEnter ==
    /\ rpc = "start"
    /\ rv' = rv0
    /\ rz' = rv0[Len(rv0)]
    /\ rsum' = 0
    /\ rq' = Rounds(Len(rv0))
    /\ rcount' = 0
    /\ rinner' = 0
    /\ rpc' = "for"
    /\ UNCHANGED <<rv0, rk, ry, re, rp>>
    /\ UNCHANGED <<cipherVars, wordVars, pageVars, codecVars>>

\* "q > 0": "sum = int32(sum + DELTA); e = sum >>> 2 & 3;" and "p = 0"
EncRoundBegin ==
    /\ rpc = "for"
    /\ rq > 0
    /\ rsum' = int32(Add32(rsum, DELTA))
    /\ re' = RoundKey(rsum')
    /\ rp' = 0
    /\ rinner' = 0
    /\ rpc' = "inner"
    /\ UNCHANGED <<rv0, rk, rv, ry, rz, rq, rcount>>
    /\ UNCHANGED <<cipherVars, wordVars, pageVars, codecVars>>

\* "p < n": "y = v[p + 1]; z = v[p] = int32(v[p] + mx(sum, y, z, p, e, k));" and "++p"
EncWord ==
    /\ rpc = "inner"
    /\ rp < Len(rv) - 1
    /\ ry' = rv[rp + 2]
    /\ \E w \in {int32(Add32(rv[rp + 1], mx(rsum, rv[rp + 2], rz, rp, re, rk)))} :
          /\ rv' = [rv EXCEPT ![rp + 1] = w]
          /\ rz' = w
    /\ rp' = rp + 1
    /\ rinner' = rinner + 1
    /\ UNCHANGED <<rpc, rv0, rk, rsum, re, rq, rcount>>
    /\ UNCHANGED <<cipherVars, wordVars, pageVars, codecVars>>

\* after the inner loop: "y = v[0]; z = v[n] = int32(v[n] + mx(sum, y, z, n, e, k));"
\* and "--q"
EncWrap ==
    /\ rpc = "inner"
    /\ rp >= Len(rv) - 1
    /\ ry' = rv[1]
    /\ \E w \in {int32(Add32(rv[Len(rv)], mx(rsum, rv[1], rz, Len(rv) - 1, re, rk)))} :
          /\ rv' = [rv EXCEPT ![Len(rv)] = w]
          /\ rz' = w
    /\ rq' = rq - 1
    /\ rcount' = rcount + 1
    /\ rpc' = "for"
    /\ UNCHANGED <<rv0, rk, rsum, re, rp, rinner>>
    /\ UNCHANGED <<cipherVars, wordVars, pageVars, codecVars>>

\* "q > 0" is false: "return v"
EncReturn ==
    /\ rpc = "for"
    /\ rq <= 0
    /\ rpc' = "encrypted"
    /\ UNCHANGED <<rv0, rk, rv, ry, rz, rsum, re, rp, rq, rcount, rinner>>
    /\ UNCHANGED <<cipherVars, wordVars, pageVars, codecVars>>

\* decryptUint32Array of the result: "y = v[0]; q = Math.floor(6 + 52 / length);"
\* and "sum = int32(q * DELTA)"
DecEnter ==
    /\ rpc = "encrypted"
    /\ ry' = rv[1]
    /\ rq' = Rounds(Len(rv))
    /\ rsum' = MulDelta(Rounds(Len(rv)))
    /\ rcount' = 0
    /\ rinner' = 0
    /\ rpc' = "dfor"
    /\ UNCHANGED <<rv0, rk, rv, rz, re, rp>>
    /\ UNCHANGED <<cipherVars, wordVars, pageVars, codecVars>>

\* "sum !== 0": "e = sum >>> 2 & 3;" and "p = n"
DecRoundBegin ==
    /\ rpc = "dfor"
    /\ rsum # 0
    /\ re' = RoundKey(rsum)
    /\ rp' = Len(rv) - 1
    /\ rinner' = 0
    /\ rpc' = "dinner"
    /\ UNCHANGED <<rv0, rk, rv, ry, rz, rsum, rq, rcount>>
    /\ UNCHANGED <<cipherVars, wordVars, pageVars, codecVars>>

\* "p > 0": "z = v[p - 1]; y = v[p] = int32(v[p] - mx(sum, y, z, p, e, k));" and "--p"
DecWord ==
    /\ rpc = "dinner"
    /\ rp > 0
    /\ rz' = rv[rp]
    /\ \E w \in {int32(Sub32(rv[rp + 1], mx(rsum, ry, rv[rp], rp, re, rk)))} :
          /\ rv' = [rv EXCEPT ![rp + 1] = w]
          /\ ry' = w
    /\ rp' = rp - 1
    /\ rinner' = rinner + 1
    /\ UNCHANGED <<rpc, rv0, rk, rsum, re, rq, rcount>>
    /\ UNCHANGED <<cipherVars, wordVars, pageVars, codecVars>>

\* after the inner loop: "z = v[n]; y = v[0] = int32(v[0] - mx(sum, y, z, 0, e, k));"
\* and "sum = int32(sum - DELTA)"
DecWrap ==
    /\ rpc = "dinner"
    /\ rp <= 0
    /\ rz' = rv[Len(rv)]
    /\ \E w \in {int32(Sub32(rv[1], mx(rsum, ry, rv[Len(rv)], 0, re, rk)))} :
          /\ rv' = [rv EXCEPT ![1] = w]
          /\ ry' = w
    /\ rsum' = int32(Sub32(rsum, DELTA))
    /\ rcount' = rcount + 1
    /\ rpc' = "dfor"
    /\ UNCHANGED <<rv0, rk, re, rp, rq, rinner>>
    /\ UNCHANGED <<cipherVars, wordVars, pageVars, codecVars>>

\* "sum !== 0" is false: "return v"
DecReturn ==
    /\ rpc = "dfor"
    /\ rsum = 0
    /\ rpc' = "decrypted"
    /\ UNCHANGED <<rv0, rk, rv, ry, rz, rsum, re, rp, rq, rcount, rinner>>
    /\ UNCHANGED <<cipherVars, wordVars, pageVars, codecVars>>

NextRounds ==
    \/ EncEnter
    \/ EncRoundBegin
    \/ EncWord
    \/ EncWrap
    \/ EncReturn
    \/ DecEnter
    \/ DecRoundBegin
    \/ DecWord
    \/ DecWrap
    \/ DecReturn

(***************************************************************************)
(* processGuestData: the guest table, the codes and the cells              *)
(***************************************************************************)
\* most rows of the guest table
MaxRows == 2

\* the codes of two guests, and the first code followed by a NUL character
\* (the code of no guest; its key words are those of the first code)
Code1 == <<65, 66, 67, 49, 50, 51>>

Code2 == <<88, 89, 57>>

PaddedCode == Code1 \o <<0>>

\* the code of the URL; <<>> when the URL has none
SuppliedCodes == {<<>>, Code1, Code2, PaddedCode}

GuestName == <<65, 110, 97>>

GuestList == <<65, 44, 66>>

EventKeyText == <<69, 86>>

\* The private sheet: the plaintext code of each guest's row and what happened
\* to the row's cells after XXTEA_ENCRYPT filled them.  "malformed": a character
\* outside the Base64 alphabet in the code cell; "garbled": one Base64 character
\* of the code cell changed; "badname": a name cell that is not Base64 and no
\* event key.  A row without a code has empty cells.
SheetRows ==
    {[codigo |-> Code1, civil |-> TRUE, recepcion |-> TRUE, damage |-> "none"],
     [codigo |-> Code2, civil |-> FALSE, recepcion |-> FALSE, damage |-> "none"],
     [codigo |-> Code1, civil |-> TRUE, recepcion |-> TRUE, damage |-> "malformed"],
     [codigo |-> Code1, civil |-> TRUE, recepcion |-> TRUE, damage |-> "garbled"],
     [codigo |-> <<>>, civil |-> FALSE, recepcion |-> FALSE, damage |-> "none"],
     [codigo |-> Code1, civil |-> TRUE, recepcion |-> TRUE, damage |-> "badname"]}

\* the published row of a sheet row: each text cell is XXTEA_ENCRYPT(text, code)
PublishedCode(codigo, damage) ==
    IF damage = "malformed" THEN Replace(codigo, 3, BadSym)
    ELSE IF damage = "garbled" THEN Replace(codigo, 3, (codigo[3] + 1) % 64)
    ELSE codigo

PublishedName(nombre, damage) ==
    IF damage = "badname" THEN Replace(nombre, 1, BadSym) ELSE nombre

PublishedRow(s) ==
    [codigo |-> PublishedCode(XXTEA_ENCRYPT(s.codigo, s.codigo).str, s.damage),
     nombre |-> PublishedName(XXTEA_ENCRYPT(GuestName, s.codigo).str, s.damage),
     invitados |-> XXTEA_ENCRYPT(GuestList, s.codigo).str,
     eventos |-> IF s.damage = "badname" THEN <<>>
                 ELSE XXTEA_ENCRYPT(EventKeyText, s.codigo).str,
     civil |-> s.civil, discurso |-> TRUE, recepcion |-> s.recepcion, video |-> FALSE]

\* data.trim().replace(/ /g, '+') of decryptField
RECURSIVE SpacesToPlus(_)
SpacesToPlus(data) ==
    IF data = <<>> THEN <<>>
    ELSE <<IF Head(data) = SpaceSym THEN 62 ELSE Head(data)>> \o SpacesToPlus(Tail(data))

RECURSIVE trim(_)
trim(data) ==
    IF data = <<>> THEN data
    ELSE IF Head(data) = SpaceSym THEN trim(Tail(data))
    ELSE IF data[Len(data)] = SpaceSym THEN trim(SubSeq(data, 1, Len(data) - 1))
    ELSE data

\* decryptField of src/bodas/script.js: null for an empty cell, null when the
\* cipher raises, otherwise what the cipher returns
NullOnThrow(decrypted) ==
    IF decrypted.kind = "throw" THEN [kind |-> "null", str |-> <<>>] ELSE decrypted

decryptField(data, key) ==
    IF data = <<>> THEN [kind |-> "null", str |-> <<>>]
    ELSE NullOnThrow(decryptFromBase64(SpacesToPlus(trim(data)), key))

\* how processGuestData reads an encrypted cell: src/script.js calls
\* XXTEA.decryptFromBase64, src/bodas/script.js calls decryptField
ReadCell(v, data, key) ==
    IF v = "bodas" THEN decryptField(data, key) ELSE decryptFromBase64(data, key)

\* a faulty comparison: any cell that decrypts at all is taken for the code
MatchesAnyPlaintext(decryptedCode, supplied) == decryptedCode.kind = "ok"

\* "decryptedCode === code": null is no string
Matches(decryptedCode, supplied) ==
    decryptedCode.kind = "ok" /\ decryptedCode.str = supplied

NoRow == [present |-> FALSE, index |-> 0, codigo |-> <<>>, nombre |-> NoResult,
          invitados |-> NoResult]

\* a faulty match: guestRow is the row itself and the assignments write the table
TableWrittenInPlace(rows, i, codigo, nombre, invitados) ==
    [rows EXCEPT ![i] = [rows[i] EXCEPT !.codigo = codigo.str, !.nombre = nombre.str,
                                        !.invitados = invitados.str]]

\* "guestRow = [...row]": the assignments that follow write the copy, and the
\* rows of dataRows keep their cells
TableAfterMatch(rows, i, codigo, nombre, invitados) == rows

\* one call of the cipher: the table and row of the cell, the column, the key
\* string and the kind of result
Call(table, row, cell, key, result) ==
    [table |-> table, row |-> row, cell |-> cell, key |-> key, result |-> result.kind]

(***************************************************************************)
(* processEventDetails: the event table and its cells                      *)
(***************************************************************************)
\* the event names "civil", "recepcion" and "video", and the text of a detail cell
Civil == <<99, 105, 118, 105, 108>>

Recepcion == <<114, 101, 99, 101, 112, 99, 105, 111, 110>>

Video == <<118, 105, 100, 101, 111>>

EventDetail == <<76>>

\* A row of the event sheet: its event and what happened to its cells after
\* XXTEA_ENCRYPT filled them with the event key.  "malformed": a character
\* outside the Base64 alphabet in the Evento cell; "garbled": one Base64
\* character of the Evento cell changed; "baddetail": a Lugar cell that is not
\* Base64.  A row without an event has an empty Evento cell.
EventRow(evento, damage) == [evento |-> evento, damage |-> damage]

\* the published event tables: the rows after the header line
EventTables ==
    {<<>>,
     <<EventRow(Civil, "none")>>,
     <<EventRow(Civil, "none"), EventRow(Recepcion, "none")>>,
     <<EventRow(Civil, "malformed"), EventRow(Recepcion, "none")>>,
     <<EventRow(Recepcion, "garbled"), EventRow(Civil, "none")>>,
     <<EventRow(Civil, "baddetail"), EventRow(Recepcion, "none")>>,
     <<EventRow(<<>>, "none"), EventRow(Civil, "none")>>}

\* what eventDataPromise resolves to: an empty text, or a table
NoCsv == [kind |-> "none", rows |-> <<>>]

EventCsvs ==
    {[kind |-> "empty", rows |-> <<>>]} \cup {[kind |-> "table", rows |-> t] : t \in EventTables}

\* what happened to the cell of column cell after XXTEA_ENCRYPT filled it
DamagedCell(text, damage, cell) ==
    IF cell = "evento" THEN PublishedCode(text, damage)
    ELSE IF damage = "baddetail" /\ cell = "lugar" THEN Replace(text, 1, BadSym)
    ELSE text

\* the published Evento, Fecha, Lugar, Direccion or Mapa cell of an event sheet row
EventCell(e, cell) ==
    DamagedCell(XXTEA_ENCRYPT(IF cell = "evento" THEN e.evento ELSE EventDetail,
                              EventKeyText).str, e.damage, cell)

\* the column processEventDetails decrypts after column cell
NextEventCell(cell) ==
    IF cell = "evento" THEN "fecha"
    ELSE IF cell = "fecha" THEN "lugar"
    ELSE IF cell = "lugar" THEN "direccion"
    ELSE IF cell = "direccion" THEN "mapa"
    ELSE "evento"

\* sectionName: 'recepcion' is 'fiesta', 'video' is 'zoom'; "other" stands
\* for every name that is no property of sectionsToShow
SectionNameOf(eventName) ==
    IF eventName = Recepcion THEN "fiesta"
    ELSE IF eventName = Video THEN "zoom"
    ELSE IF eventName = Civil THEN "civil"
    ELSE "other"

\* a faulty call: processEventDetails(code, ...)
EventDetailsKeyCode(supplied, key) == supplied

\* the first argument of processEventDetails(eventKey, sectionsToShow, eventCsvText)
EventDetailsKey(supplied, key) == key.str

\* a faulty processEventDetails: no try around its body, an exception reaches
\* the catch block of processGuestData
AfterUncaughtEventError == "catch"

\* where processGuestData goes on after processEventDetails has caught an
\* exception of its body and returned: the statements before the forEach
AfterEventError == "reveal"

\* a faulty processGuestData: the spinner and setupNavigation() end the try
\* block and no finally block follows the catch block
AfterCatchReturn == "done"

\* where processGuestData goes on after its catch block: "finally"
AfterCatch == "finally"

\* the calls of the cipher for the cells in order, up to the first that raises
RECURSIVE UpToThrow(_)
UpToThrow(cs) ==
    IF cs = <<>> THEN <<>>
    ELSE IF Head(cs).result = "throw" THEN <<Head(cs)>>
    ELSE <<Head(cs)>> \o UpToThrow(Tail(cs))

(***************************************************************************)
(* processGuestData, statement by statement                                *)
(***************************************************************************)
\* A guest is added to the sheet; XXTEA_ENCRYPT fills the cells of the row and
\* the row is published with the table.
FillRow ==
    /\ pc = "sheet"
    /\ Len(sheet) < MaxRows
    /\ \E s \in SheetRows :
          /\ sheet' = Append(sheet, s)
          /\ dataRows' = Append(dataRows, PublishedRow(s))
    /\ UNCHANGED <<variant, code, pc, idx, guestRow, examined, shown, errored,
                   sectionsToShow, eventKey, spinnerHidden, navCalls>>
    /\ UNCHANGED <<eventCsv, eidx, ecell, esection, calls, details>>
    /\ UNCHANGED <<cipherVars, wordVars, codecVars, roundVars>>

\* A page is opened: one of the two scripts runs processGuestData with the
\* code of the URL and the rows of the published table.
OpenPage ==
    /\ pc = "sheet"
    /\ variant' \in {"root", "bodas"}
    /\ code' \in SuppliedCodes
    /\ pc' = "scan"
    /\ UNCHANGED <<sheet, dataRows, idx, guestRow, examined, shown, errored,
                   sectionsToShow, eventKey, spinnerHidden, navCalls>>
    /\ UNCHANGED <<eventCsv, eidx, ecell, esection, calls, details>>
    /\ UNCHANGED <<cipherVars, wordVars, codecVars, roundVars>>

\* One iteration of "for (const row of dataRows)" under "if (code)".
\* src/script.js skips a row with an empty code cell and lets an exception of
\* the cipher reach the catch block; decryptField turns both into null.
ScanRow ==
    /\ pc = "scan"
    /\ code # <<>>
    /\ idx <= Len(dataRows)
    /\ IF dataRows[idx].codigo = <<>>
       THEN /\ idx' = idx + 1
            /\ UNCHANGED <<pc, guestRow, examined, dataRows, calls>>
       ELSE \E decryptedCode \in {ReadCell(variant, dataRows[idx].codigo, code)} :
              /\ examined' = Append(examined, idx)
              /\ IF decryptedCode.kind = "throw"
                 THEN /\ pc' = "catch"
                      /\ calls' = Append(calls, Call("guest", idx, "codigo", code, decryptedCode))
                      /\ UNCHANGED <<idx, guestRow, dataRows>>
                 ELSE IF Matches(decryptedCode, code)
                 THEN \E decryptedNombre \in {ReadCell(variant, dataRows[idx].nombre, code)},
                         decryptedInvitados \in {ReadCell(variant, dataRows[idx].invitados, code)} :
                        /\ calls' = calls \o UpToThrow(
                               <<Call("guest", idx, "codigo", code, decryptedCode),
                                 Call("guest", idx, "nombre", code, decryptedNombre),
                                 Call("guest", idx, "invitados", code, decryptedInvitados)>>)
                        /\ IF decryptedNombre.kind = "throw" \/ decryptedInvitados.kind = "throw"
                           THEN /\ pc' = "catch"
                                /\ UNCHANGED <<idx, guestRow, dataRows>>
                           ELSE /\ guestRow' = [present |-> TRUE, index |-> idx,
                                                codigo |-> decryptedCode.str,
                                                nombre |-> decryptedNombre,
                                                invitados |-> decryptedInvitados]
                                /\ dataRows' = TableAfterMatch(dataRows, idx, decryptedCode,
                                                               decryptedNombre, decryptedInvitados)
                                /\ pc' = "render"
                                /\ UNCHANGED idx
                 ELSE /\ idx' = idx + 1
                      /\ calls' = Append(calls, Call("guest", idx, "codigo", code, decryptedCode))
                      /\ UNCHANGED <<pc, guestRow, dataRows>>
    /\ UNCHANGED <<variant, code, sheet, shown, errored, sectionsToShow, eventKey,
                   spinnerHidden, navCalls, eventCsv, eidx, ecell, esection, details>>
    /\ UNCHANGED <<cipherVars, wordVars, codecVars, roundVars>>

\* the loop is over, or there was no code and it never ran
ScanEnd ==
    /\ pc = "scan"
    /\ code = <<>> \/ idx > Len(dataRows)
    /\ pc' = "render"
    /\ UNCHANGED <<variant, code, sheet, dataRows, idx, guestRow, examined, shown, errored,
                   sectionsToShow, eventKey, spinnerHidden, navCalls>>
    /\ UNCHANGED <<eventCsv, eidx, ecell, esection, calls, details>>
    /\ UNCHANGED <<cipherVars, wordVars, codecVars, roundVars>>

\* the sectionsToShow object of the matched row
SectionsOf(row) ==
    {"portada", "invitacion", "contratapa"}
    \cup (IF row.civil THEN {"civil"} ELSE {})
    \cup (IF row.discurso THEN {"discurso"} ELSE {})
    \cup (IF row.recepcion THEN {"fiesta", "rsvp"} ELSE {})
    \cup (IF row.video THEN {"zoom"} ELSE {})

\* "if (guestRow)": the texts, sectionsToShow, and the event key decrypted with code
RenderGuest ==
    /\ pc = "render"
    /\ guestRow.present
    /\ sectionsToShow' = SectionsOf(dataRows[guestRow.index])
    /\ IF dataRows[guestRow.index].eventos = <<>>
       THEN /\ pc' = "reveal"
            /\ UNCHANGED <<eventKey, calls>>
       ELSE \E key \in {ReadCell(variant, dataRows[guestRow.index].eventos, code)} :
              /\ calls' = Append(calls, Call("guest", guestRow.index, "eventos", code, key))
              /\ IF key.kind = "throw"
                 THEN /\ pc' = "catch"
                      /\ UNCHANGED eventKey
                 ELSE /\ eventKey' = key
                      /\ pc' = IF key.kind = "ok" /\ key.str # <<>> THEN "await" ELSE "reveal"
    /\ UNCHANGED <<variant, code, sheet, dataRows, idx, guestRow, examined, shown, errored,
                   spinnerHidden, navCalls, eventCsv, eidx, ecell, esection, details>>
    /\ UNCHANGED <<cipherVars, wordVars, codecVars, roundVars>>

\* "await eventDataPromise": the fetch may be rejected, which reaches the catch
\* block of processGuestData; otherwise processEventDetails is called with the
\* text it resolved to
AwaitEvents ==
    /\ pc = "await"
    /\ \/ /\ pc' = "catch"
          /\ UNCHANGED eventCsv
       \/ /\ eventCsv' \in EventCsvs
          /\ pc' = "events"
    /\ UNCHANGED <<variant, code, sheet, dataRows, idx, guestRow, examined, shown, errored,
                   sectionsToShow, eventKey, spinnerHidden, navCalls, eidx, ecell, esection, calls,
                   details>>
    /\ UNCHANGED <<cipherVars, wordVars, codecVars, roundVars>>

\* One decryption of "for (const row of dataRows)" of processEventDetails: the
\* Evento cell of the row, and for a section of sectionsToShow its Fecha,
\* Lugar, Direccion and Mapa cells, after which the details are written.  An
\* exception of the cipher (src/script.js) leaves the loop for the catch block
\* of processEventDetails, which logs it and returns.
ProcessEventCell ==
    /\ pc = "events"
    /\ eventCsv.kind = "table"
    /\ eidx <= Len(eventCsv.rows)
    /\ IF ecell = "evento" /\ eventCsv.rows[eidx].evento = <<>>
       THEN /\ eidx' = eidx + 1
            /\ UNCHANGED <<pc, calls, details, ecell, esection>>
       ELSE \E text \in {ReadCell(variant, EventCell(eventCsv.rows[eidx], ecell),
                                  EventDetailsKey(code, eventKey))} :
              /\ calls' = Append(calls, Call("event", eidx, ecell,
                                              EventDetailsKey(code, eventKey), text))
              /\ IF text.kind = "throw"
                 THEN /\ pc' = AfterEventError
                      /\ UNCHANGED <<eidx, details, ecell, esection>>
                 ELSE IF ecell = "evento"
                 THEN IF text.kind = "ok" /\ text.str # <<>>
                         /\ SectionNameOf(text.str) \in sectionsToShow
                      THEN /\ esection' = SectionNameOf(text.str)
                           /\ ecell' = NextEventCell(ecell)
                           /\ UNCHANGED <<pc, eidx, details>>
                      ELSE /\ eidx' = eidx + 1
                           /\ UNCHANGED <<pc, details, ecell, esection>>
                 ELSE IF ecell = "mapa"
                 THEN /\ details' = details \cup {esection}
                      /\ eidx' = eidx + 1
                      /\ ecell' = NextEventCell(ecell)
                      /\ UNCHANGED <<pc, esection>>
                 ELSE /\ ecell' = NextEventCell(ecell)
                      /\ UNCHANGED <<pc, eidx, details, esection>>
    /\ UNCHANGED <<variant, code, sheet, dataRows, idx, guestRow, examined, shown, errored,
                   sectionsToShow, eventKey, spinnerHidden, navCalls, eventCsv>>
    /\ UNCHANGED <<cipherVars, wordVars, codecVars, roundVars>>

\* processEventDetails returns: its loop is over, or the text was empty and
\* "throw new Error('Event data is not available.')" was caught
EventDetailsEnd ==
    /\ pc = "events"
    /\ eventCsv.kind = "empty" \/ eidx > Len(eventCsv.rows)
    /\ pc' = IF eventCsv.kind = "empty" THEN AfterEventError ELSE "reveal"
    /\ UNCHANGED <<variant, code, sheet, dataRows, idx, guestRow, examined, shown, errored,
                   sectionsToShow, eventKey, spinnerHidden, navCalls, eventCsv, eidx, ecell,
                   esection, calls, details>>
    /\ UNCHANGED <<cipherVars, wordVars, codecVars, roundVars>>

\* the forEach over [data-section] of the guest branch
Reveal ==
    /\ pc = "reveal"
    /\ shown' = sectionsToShow
    /\ pc' = "finally"
    /\ UNCHANGED <<variant, code, sheet, dataRows, idx, guestRow, examined, errored,
                   sectionsToShow, eventKey, spinnerHidden, navCalls>>
    /\ UNCHANGED <<eventCsv, eidx, ecell, esection, calls, details>>
    /\ UNCHANGED <<cipherVars, wordVars, codecVars, roundVars>>

\* "else": wrong code and no code
RenderNoGuest ==
    /\ pc = "render"
    /\ ~guestRow.present
    /\ shown' = {"portada", "no-code"}
    /\ pc' = "finally"
    /\ UNCHANGED <<variant, code, sheet, dataRows, idx, guestRow, examined, errored,
                   sectionsToShow, eventKey, spinnerHidden, navCalls>>
    /\ UNCHANGED <<eventCsv, eidx, ecell, esection, calls, details>>
    /\ UNCHANGED <<cipherVars, wordVars, codecVars, roundVars>>

\* "catch (error)": the alert, and every section is removed
Catch ==
    /\ pc = "catch"
    /\ errored' = TRUE
    /\ shown' = {}
    /\ pc' = AfterCatch
    /\ UNCHANGED <<variant, code, sheet, dataRows, idx, guestRow, examined, sectionsToShow,
                   eventKey, spinnerHidden, navCalls>>
    /\ UNCHANGED <<eventCsv, eidx, ecell, esection, calls, details>>
    /\ UNCHANGED <<cipherVars, wordVars, codecVars, roundVars>>

\* "finally": the spinner is hidden and setupNavigation() is called
Finally ==
    /\ pc = "finally"
    /\ spinnerHidden' = TRUE
    /\ navCalls' = navCalls + 1
    /\ pc' = "done"
    /\ UNCHANGED <<variant, code, sheet, dataRows, idx, guestRow, examined, shown, errored,
                   sectionsToShow, eventKey>>
    /\ UNCHANGED <<eventCsv, eidx, ecell, esection, calls, details>>
    /\ UNCHANGED <<cipherVars, wordVars, codecVars, roundVars>>

Next ==
    \/ FillRow
    \/ OpenPage
    \/ ScanRow
    \/ ScanEnd
    \/ RenderGuest
    \/ AwaitEvents
    \/ ProcessEventCell
    \/ EventDetailsEnd
    \/ Reveal
    \/ RenderNoGuest
    \/ Catch
    \/ Finally

(***************************************************************************)
(* Specifications                                                          *)
(***************************************************************************)
\* the sheet is filled, then one run of processGuestData
Init ==
    /\ variant = "none"
    /\ code = <<>>
    /\ sheet = <<>>
    /\ dataRows = <<>>
    /\ pc = "sheet"
    /\ idx = 1
    /\ guestRow = NoRow
    /\ examined = <<>>
    /\ shown = {}
    /\ errored = FALSE
    /\ sectionsToShow = {}
    /\ eventKey = NoResult
    /\ spinnerHidden = FALSE
    /\ navCalls = 0
    /\ eventCsv = NoCsv
    /\ eidx = 1
    /\ ecell = "evento"
    /\ esection = "other"
    /\ calls = <<>>
    /\ details = {}
    /\ cpc = "idle"
    /\ cdata = <<>>
    /\ ckey = <<>>
    /\ dkey = <<>>
    /\ cv = <<>>
    /\ ck = <<>>
    /\ ctext = <<>>
    /\ cres = NoResult
    /\ cret = NoResult
    /\ ctamper = "none"
    /\ wpc = "idle"
    /\ wv0 = <<>>
    /\ wk = <<>>
    /\ wk2 = <<>>
    /\ wv = <<>>
    /\ wv2 = <<>>
    /\ wres = NoBytes
    /\ wrejected = {}
    /\ bpc = "idle"
    /\ bbytes = <<>>
    /\ bflag = FALSE
    /\ bv = <<>>
    /\ bres = NoBytes
    /\ rpc = "idle"
    /\ rv0 = <<>>
    /\ rk = <<>>
    /\ rv = <<>>
    /\ ry = 0
    /\ rz = 0
    /\ rsum = 0
    /\ re = 0
    /\ rp = 0
    /\ rq = 0
    /\ rcount = 0
    /\ rinner = 0

Spec == Init /\ [][Next]_vars

\* one run of encryptToBase64 and decryptFromBase64
InitCipher ==
    /\ cpc = "start"
    /\ cdata \in StringsUpTo(DataChars, MaxLen)
    /\ ckey \in KeyStrings
    /\ dkey \in {ckey, OtherKey(ckey)}
    /\ cv = <<>>
    /\ ck = <<>>
    /\ ctext = <<>>
    /\ cres = NoResult
    /\ cret = NoResult
    /\ ctamper = "none"
    /\ wpc = "idle"
    /\ wv0 = <<>>
    /\ wk = <<>>
    /\ wk2 = <<>>
    /\ wv = <<>>
    /\ wv2 = <<>>
    /\ wres = NoBytes
    /\ wrejected = {}
    /\ variant = "bodas"
    /\ code = <<>>
    /\ sheet = <<>>
    /\ dataRows = <<>>
    /\ pc = "idle"
    /\ idx = 1
    /\ guestRow = NoRow
    /\ examined = <<>>
    /\ shown = {}
    /\ errored = FALSE
    /\ sectionsToShow = {}
    /\ eventKey = NoResult
    /\ spinnerHidden = FALSE
    /\ navCalls = 0
    /\ eventCsv = NoCsv
    /\ eidx = 1
    /\ ecell = "evento"
    /\ esection = "other"
    /\ calls = <<>>
    /\ details = {}
    /\ bpc = "idle"
    /\ bbytes = <<>>
    /\ bflag = FALSE
    /\ bv = <<>>
    /\ bres = NoBytes
    /\ rpc = "idle"
    /\ rv0 = <<>>
    /\ rk = <<>>
    /\ rv = <<>>
    /\ ry = 0
    /\ rz = 0
    /\ rsum = 0
    /\ re = 0
    /\ rp = 0
    /\ rq = 0
    /\ rcount = 0
    /\ rinner = 0

SpecCipher == InitCipher /\ [][NextCipher]_vars

\* the block transform on word arrays
InitWords ==
    /\ wpc = "start"
    /\ wv0 \in WordSeqsUpTo(WordVals, MaxWords)
    /\ \E a \in KeyTails, b \in KeyTails :
          /\ wk = KeyBase \o a
          /\ wk2 = KeyBase \o b
    /\ wv = <<>>
    /\ wv2 = <<>>
    /\ wres = NoBytes
    /\ wrejected = {}
    /\ cpc = "idle"
    /\ cdata = <<>>
    /\ ckey = <<>>
    /\ dkey = <<>>
    /\ cv = <<>>
    /\ ck = <<>>
    /\ ctext = <<>>
    /\ cres = NoResult
    /\ cret = NoResult
    /\ ctamper = "none"
    /\ variant = "bodas"
    /\ code = <<>>
    /\ sheet = <<>>
    /\ dataRows = <<>>
    /\ pc = "idle"
    /\ idx = 1
    /\ guestRow = NoRow
    /\ examined = <<>>
    /\ shown = {}
    /\ errored = FALSE
    /\ sectionsToShow = {}
    /\ eventKey = NoResult
    /\ spinnerHidden = FALSE
    /\ navCalls = 0
    /\ eventCsv = NoCsv
    /\ eidx = 1
    /\ ecell = "evento"
    /\ esection = "other"
    /\ calls = <<>>
    /\ details = {}
    /\ bpc = "idle"
    /\ bbytes = <<>>
    /\ bflag = FALSE
    /\ bv = <<>>
    /\ bres = NoBytes
    /\ rpc = "idle"
    /\ rv0 = <<>>
    /\ rk = <<>>
    /\ rv = <<>>
    /\ ry = 0
    /\ rz = 0
    /\ rsum = 0
    /\ re = 0
    /\ rp = 0
    /\ rq = 0
    /\ rcount = 0
    /\ rinner = 0

SpecWords == InitWords /\ [][NextWords]_vars

\* the codec on word arrays
InitDecode ==
    /\ wpc = "start"
    /\ \/ wv0 = <<>>
       \/ \E body \in WordSeqsUpTo(BodyVals, MaxTagged - 1), m \in TagVals :
             wv0 = Append(body, m)
    /\ wk = <<>>
    /\ wk2 = <<>>
    /\ wv = <<>>
    /\ wv2 = <<>>
    /\ wres = NoBytes
    /\ wrejected = {}
    /\ cpc = "idle"
    /\ cdata = <<>>
    /\ ckey = <<>>
    /\ dkey = <<>>
    /\ cv = <<>>
    /\ ck = <<>>
    /\ ctext = <<>>
    /\ cres = NoResult
    /\ cret = NoResult
    /\ ctamper = "none"
    /\ variant = "bodas"
    /\ code = <<>>
    /\ sheet = <<>>
    /\ dataRows = <<>>
    /\ pc = "idle"
    /\ idx = 1
    /\ guestRow = NoRow
    /\ examined = <<>>
    /\ shown = {}
    /\ errored = FALSE
    /\ sectionsToShow = {}
    /\ eventKey = NoResult
    /\ spinnerHidden = FALSE
    /\ navCalls = 0
    /\ eventCsv = NoCsv
    /\ eidx = 1
    /\ ecell = "evento"
    /\ esection = "other"
    /\ calls = <<>>
    /\ details = {}
    /\ bpc = "idle"
    /\ bbytes = <<>>
    /\ bflag = FALSE
    /\ bv = <<>>
    /\ bres = NoBytes
    /\ rpc = "idle"
    /\ rv0 = <<>>
    /\ rk = <<>>
    /\ rv = <<>>
    /\ ry = 0
    /\ rz = 0
    /\ rsum = 0
    /\ re = 0
    /\ rp = 0
    /\ rq = 0
    /\ rcount = 0
    /\ rinner = 0

SpecDecode == InitDecode /\ [][NextDecode]_vars

\* the codec on byte buffers
InitCodec ==
    /\ bpc = "start"
    /\ bbytes \in StringsUpTo(ByteVals, MaxBytes)
    /\ bflag \in BOOLEAN
    /\ bv = <<>>
    /\ bres = NoBytes
    /\ rpc = "idle"
    /\ rv0 = <<>>
    /\ rk = <<>>
    /\ rv = <<>>
    /\ ry = 0
    /\ rz = 0
    /\ rsum = 0
    /\ re = 0
    /\ rp = 0
    /\ rq = 0
    /\ rcount = 0
    /\ rinner = 0
    /\ wpc = "idle"
    /\ wv0 = <<>>
    /\ wk = <<>>
    /\ wk2 = <<>>
    /\ wv = <<>>
    /\ wv2 = <<>>
    /\ wres = NoBytes
    /\ wrejected = {}
    /\ cpc = "idle"
    /\ cdata = <<>>
    /\ ckey = <<>>
    /\ dkey = <<>>
    /\ cv = <<>>
    /\ ck = <<>>
    /\ ctext = <<>>
    /\ cres = NoResult
    /\ cret = NoResult
    /\ ctamper = "none"
    /\ variant = "bodas"
    /\ code = <<>>
    /\ sheet = <<>>
    /\ dataRows = <<>>
    /\ pc = "idle"
    /\ idx = 1
    /\ guestRow = NoRow
    /\ examined = <<>>
    /\ shown = {}
    /\ errored = FALSE
    /\ sectionsToShow = {}
    /\ eventKey = NoResult
    /\ spinnerHidden = FALSE
    /\ navCalls = 0
    /\ eventCsv = NoCsv
    /\ eidx = 1
    /\ ecell = "evento"
    /\ esection = "other"
    /\ calls = <<>>
    /\ details = {}

SpecCodec == InitCodec /\ [][NextCodec]_vars

\* the two transforms on word arrays, statement by statement
InitRounds ==
    /\ bpc = "idle"
    /\ bbytes = <<>>
    /\ bflag = FALSE
    /\ bv = <<>>
    /\ bres = NoBytes
    /\ rpc = "start"
    /\ rv0 \in RoundInputs
    /\ rk = KeyBase
    /\ rv = <<>>
    /\ ry = 0
    /\ rz = 0
    /\ rsum = 0
    /\ re = 0
    /\ rp = 0
    /\ rq = 0
    /\ rcount = 0
    /\ rinner = 0
    /\ wpc = "idle"
    /\ wv0 = <<>>
    /\ wk = <<>>
    /\ wk2 = <<>>
    /\ wv = <<>>
    /\ wv2 = <<>>
    /\ wres = NoBytes
    /\ wrejected = {}
    /\ cpc = "idle"
    /\ cdata = <<>>
    /\ ckey = <<>>
    /\ dkey = <<>>
    /\ cv = <<>>
    /\ ck = <<>>
    /\ ctext = <<>>
    /\ cres = NoResult
    /\ cret = NoResult
    /\ ctamper = "none"
    /\ variant = "bodas"
    /\ code = <<>>
    /\ sheet = <<>>
    /\ dataRows = <<>>
    /\ pc = "idle"
    /\ idx = 1
    /\ guestRow = NoRow
    /\ examined = <<>>
    /\ shown = {}
    /\ errored = FALSE
    /\ sectionsToShow = {}
    /\ eventKey = NoResult
    /\ spinnerHidden = FALSE
    /\ navCalls = 0
    /\ eventCsv = NoCsv
    /\ eidx = 1
    /\ ecell = "evento"
    /\ esection = "other"
    /\ calls = <<>>
    /\ details = {}

SpecRounds == InitRounds /\ [][NextRounds]_vars


(***************************************************************************)
(* Properties of the cipher (SpecCipher)                                   *)
(***************************************************************************)
\* C1: for every byte buffer, the empty one included, and every non-empty
\* key, encoding with the length tag, encrypting, decrypting with the same
\* key and decoding with the length check returns the buffer.
RoundTripEveryBuffer ==
    (cpc = "done" /\ ctamper = "none" /\ dkey = ckey /\ ckey # <<>>)
        => cres = [kind |-> "ok", str |-> cdata]

\* the empty buffer went through the round trip and the length check refused it
EmptyBufferRefused ==
    /\ cpc = "done"
    /\ ctamper = "none"
    /\ dkey = ckey
    /\ ckey # <<>>
    /\ cdata = <<>>
    /\ cres.kind = "null"

KeyInUse == IF cpc \in {"loaded", "decrypted"} THEN dkey ELSE ckey

\* C9: for every key string, the empty one included, the key handed to the
\* transform has at least 4 words; it is the key's words followed by zero
\* words only, and a key of 4 words or more keeps its length.
FixedKeyHasFourWords ==
    cpc \in {"encoded", "encrypted", "stored", "loaded", "decrypted"} =>
        LET k0 == toUint32Array(getBytes(KeyInUse), FALSE)
        IN  /\ Len(ck) >= 4
            /\ Len(ck) >= Len(k0)
            /\ Len(k0) >= 4 => Len(ck) = Len(k0)
            /\ Len(k0) < 4 => Len(ck) = 4
            /\ \A i \in 1..Len(ck) : ck[i] = IF i <= Len(k0) THEN k0[i] ELSE 0

\* the empty key string was fixed up to four zero words
EmptyKeyFixed ==
    /\ cpc = "encoded"
    /\ ckey = <<>>
    /\ ck = <<0, 0, 0, 0>>

(***************************************************************************)
(* Properties of the block transform (SpecWords)                           *)
(***************************************************************************)
\* C2: for every word sequence of at least 2 words and every key of at least
\* 4 words, decryptUint32Array of encryptUint32Array under the same key is
\* the sequence, word for word.
DecryptInvertsEncrypt ==
    (wpc = "decrypted" /\ Len(wv0) >= 2 /\ Len(wk) >= 4) => wv = wv0

\* a sequence of 2 words or more was encrypted to other words and decrypted back
WordsRestored ==
    /\ wpc = "decrypted"
    /\ Len(wv0) >= 2
    /\ Len(wk) > 4
    /\ wv = wv0

\* C10: every key index the transform computes, (p & 3) ^ e with e in 0..3,
\* is in 0..3, and two keys that agree on words 0..3 give the same ciphertext
\* for every plaintext and the same plaintext on decryption.
KeyWordsPastThreeUnused ==
    /\ \A p \in 0..Len(wv0), e \in 0..3 : KeyIndex(p, e) \in 0..3
    /\ wpc \in {"encrypted", "decrypted"} => wv = wv2

\* two different keys with the same first four words produced one ciphertext
SameCiphertextUnderBothKeys ==
    /\ wpc = "encrypted"
    /\ wk # wk2
    /\ Len(wv0) >= 2
    /\ wv # wv0
    /\ wv = wv2

(***************************************************************************)
(* Properties of the length check (SpecDecode)                             *)
(***************************************************************************)
\* C8: toByteArray(v, true) returns null unless the trailing word m has
\* n4 - 3 <= m <= n4 with n4 = 4 * (wordCount - 1), and otherwise returns
\* exactly the first m bytes of the words before the trailing word.
LengthCheckDecides ==
    (wpc = "decoded" /\ Len(wv0) >= 1) =>
        LET m == wv0[Len(wv0)]
            n4 == 4 * (Len(wv0) - 1)
        IN  IF n4 - 3 <= m /\ m <= n4
            THEN /\ wres.kind = "ok"
                 /\ Len(wres.bytes) = m
                 /\ wres.bytes = SubSeq(UnpackBytes(wv0, n4), 1, m)
            ELSE wres.kind = "null"

\* the one-word sequence 0xFFFFFFFF was decoded to an empty buffer
NegativeTagAccepted ==
    /\ wpc = "decoded"
    /\ wv0 = <<-1>>
    /\ wres = [kind |-> "ok", bytes |-> <<>>]

(***************************************************************************)
(* Properties of the guest-table scan (Spec)                               *)
(***************************************************************************)
\* row i's code cell decrypts with the supplied code to the supplied code
RowDecryptsToCode(i) == Matches(decryptFromBase64(dataRows[i].codigo, code), code)

\* the rows whose code cell decrypts to the supplied code
MatchingRows == {i \in 1..Len(dataRows) : RowDecryptsToCode(i)}

\* row i's code cell does not decrypt: it is not Base64, or the length check fails
CodeCellFails(i) == decryptFromBase64(dataRows[i].codigo, code).kind # "ok"

\* C3: with a non-empty supplied code, the selected row is non-null iff some
\* row's code cell decrypts with the code to the code; it is the first such
\* row, and no row after it is examined.
FirstMatchSelected ==
    (pc = "done" /\ code # <<>>) =>
        /\ guestRow.present <=> MatchingRows # {}
        /\ guestRow.present =>
              /\ guestRow.index \in MatchingRows
              /\ \A i \in MatchingRows : guestRow.index <= i
              /\ \A j \in 1..Len(examined) : examined[j] <= guestRow.index

\* src/script.js ended on the error path with the guest's row behind a row
\* whose code cell is not Base64
MatchBehindMalformedRowLost ==
    /\ variant = "root"
    /\ pc = "done"
    /\ Len(sheet) = 2
    /\ sheet[1].damage = "malformed"
    /\ sheet[2].damage = "none"
    /\ sheet[2].codigo = code
    /\ ~guestRow.present
    /\ errored

\* C4: a row whose code cell is encryptToBase64(P, P) for a non-empty P is
\* accepted by the scan of src/bodas/script.js exactly when the supplied
\* code is P.
OwnCodeAccepted ==
    variant = "bodas" =>
        \A j \in 1..Len(examined) :
            sheet[examined[j]].damage \in {"none", "badname"} =>
                ((guestRow.present /\ guestRow.index = examined[j])
                    <=> code = sheet[examined[j]].codigo)

\* the scan refused the row of another guest and accepted the next row
SecondRowAccepted ==
    /\ variant = "bodas"
    /\ Len(sheet) = 2
    /\ sheet[1].damage = "none"
    /\ sheet[1].codigo # <<>>
    /\ sheet[1].codigo # code
    /\ sheet[2].damage = "none"
    /\ examined = <<1, 2>>
    /\ guestRow.present
    /\ guestRow.index = 2

\* C5: a code cell that fails to decrypt, as malformed Base64 or by the
\* length check, only means that the row is not the match: the scan goes on
\* to the next row, and a matching row later in the table is still found.
FailedCellOnlySkipsRow ==
    \A j \in 1..Len(examined) :
        CodeCellFails(examined[j]) =>
            /\ idx > examined[j]
            /\ (pc = "done" /\ \E i \in MatchingRows : i > examined[j]) => guestRow.present

\* src/script.js took the error path at a code cell that is not Base64
MalformedCellRaised ==
    /\ variant = "root"
    /\ pc = "catch"
    /\ examined = <<1>>
    /\ idx = 1
    /\ sheet[1].damage = "malformed"

\* what a run without a code leaves: no guest row, the sections 'portada'
\* and 'no-code', and no error
NoCodeOutcome ==
    /\ ~guestRow.present
    /\ shown = {"portada", "no-code"}
    /\ ~errored

\* C6: a run with a non-empty code that matches no row ends as a run without
\* a code does, and without a code no decryption is attempted.
WrongCodeLikeNoCode ==
    pc = "done" =>
        /\ code = <<>> => examined = <<>>
        /\ (code = <<>> \/ MatchingRows = {}) => NoCodeOutcome

\* src/script.js ended a run with a code that matches no row on the error path
WrongCodeEndedInError ==
    /\ variant = "root"
    /\ pc = "done"
    /\ code # <<>>
    /\ MatchingRows = {}
    /\ errored
    /\ shown = {}

(***************************************************************************)
(* Properties of the codec on byte buffers (SpecCodec)                     *)
(***************************************************************************)
\* C11: for a buffer of len bytes toUint32Array returns ceil(len / 4) words
\* without includeLength and one more with it; with includeLength the last
\* word is len; the empty buffer without includeLength gives no word at all.
WordCountAndTag ==
    bpc \in {"packed", "unpacked"} =>
        /\ Len(bv) = ((Len(bbytes) + 3) \div 4) + (IF bflag THEN 1 ELSE 0)
        /\ bflag => bv[Len(bv)] = Len(bbytes)
        /\ (Len(bbytes) = 0 /\ ~bflag) => bv = <<>>

\* a buffer that ends inside a word was packed with its length
PartialWordTagged ==
    /\ bpc = "packed"
    /\ bflag
    /\ Len(bbytes) = 5
    /\ Len(bv) = 3
    /\ bv[3] = 5

\* the value of the word that holds the bytes b0, b1, b2, b3 at the bit
\* offsets 0, 8, 16 and 24 (a word with bit 31 set is a negative number)
LittleEndianWord(b0, b1, b2, b3) ==
    b0 + 256 * b1 + 65536 * b2 + 16777216 * (IF b3 >= 128 THEN b3 - 256 ELSE b3)

\* byte i of the buffer bytes, 0 past its end
ByteAt(bytes, i) == IF i < Len(bytes) THEN bytes[i + 1] ELSE 0

\* C12: toUint32Array packs little-endian, byte i into word i >> 2 at bit
\* offset (i & 3) * 8, and toByteArray(toUint32Array(b, true), true) is b
\* for every buffer b of bytes 0..255, the empty one included.
PacksLittleEndianAndRoundTrips ==
    /\ bpc \in {"packed", "unpacked"} =>
          \A j \in 0 .. ((Len(bbytes) + 3) \div 4) - 1 :
              bv[j + 1] = LittleEndianWord(ByteAt(bbytes, 4 * j), ByteAt(bbytes, 4 * j + 1),
                                           ByteAt(bbytes, 4 * j + 2), ByteAt(bbytes, 4 * j + 3))
    /\ (bpc = "unpacked" /\ bflag) => bres = [kind |-> "ok", bytes |-> bbytes]

\* a buffer with a high byte at offset 24 and an unfinished second word came back
HighByteBufferCameBack ==
    /\ bpc = "unpacked"
    /\ bflag
    /\ bbytes = <<1, 0, 128, 255, 128>>
    /\ bv = <<-8388607, 128, 5>>
    /\ bres.kind = "ok"
    /\ bres.bytes = bbytes

(***************************************************************************)
(* Properties of the length check under bit flips (SpecDecode)             *)
(***************************************************************************)
\* C13: for every word array with a trailing length word that
\* toByteArray(v, true) accepts, at least one flip of a single bit of the
\* trailing word makes toByteArray(v, true) return null.
SomeTagFlipRejected ==
    wpc = "flipped" => wrejected # {}

\* the array <<0x04030201, 3>> was accepted; the flips of bits 2 to 31 of its
\* trailing word are refused, those of bits 0 and 1 (lengths 2 and 1) are not
FlipsOfThreeByteTag ==
    /\ wpc = "flipped"
    /\ wv0 = <<67305985, 3>>
    /\ wres = [kind |-> "ok", bytes |-> <<1, 2, 3>>]
    /\ wrejected = 2 .. 31

(***************************************************************************)
(* Properties of the event table (Spec)                                    *)
(***************************************************************************)
\* the calls made so far on cells of the given table
CallsOn(table) == {i \in 1 .. Len(calls) : calls[i].table = table}

\* C14: every cell of the guest table (code, name, guest list, event key) is
\* decrypted with the supplied code; a cell of the event table is decrypted
\* only after a row has matched and that row's event-key cell has been
\* decrypted with the code to a non-empty string, and then with exactly that
\* string as key.
KeyChainOrdered ==
    /\ \A i \in CallsOn("guest") : calls[i].key = code
    /\ \A i \in CallsOn("event") :
          /\ guestRow.present
          /\ eventKey.kind = "ok"
          /\ eventKey.str # <<>>
          /\ calls[i].key = eventKey.str
          /\ \E j \in 1 .. (i - 1) :
                calls[j] = Call("guest", guestRow.index, "eventos", code, eventKey)
          /\ \E j \in 1 .. (i - 1) :
                /\ calls[j].table = "guest"
                /\ calls[j].row = guestRow.index
                /\ calls[j].cell = "codigo"
                /\ calls[j].result = "ok"

\* a run decrypted the name, the guest list and the event key of the matched
\* row with the code, and then cells of the event table with the event key,
\* which is not the code
EventCellsReadWithEventKey ==
    /\ pc = "done"
    /\ guestRow.present
    /\ {"nombre", "invitados", "eventos"} \subseteq {calls[i].cell : i \in CallsOn("guest")}
    /\ eventKey.str = EventKeyText
    /\ eventKey.str # code
    /\ {"evento", "fecha", "lugar", "direccion", "mapa"}
           \subseteq {calls[i].cell : i \in CallsOn("event")}
    /\ \A i \in CallsOn("event") : calls[i].key # code
    /\ "civil" \in details

\* C15: once processEventDetails has been called for a matched guest, nothing
\* that happens in it (a cell that is not Base64, a cell that fails the length
\* check, an empty event text) takes processGuestData to its catch block: the
\* run goes on to the forEach that reveals the sections of the matched row.
EventFailureNeverAborts ==
    eventCsv.kind # "none" =>
        /\ guestRow.present
        /\ pc \in {"events", "reveal", "finally", "done"}
        /\ ~errored
        /\ pc \in {"finally", "done"} => shown = SectionsOf(dataRows[guestRow.index])

\* a run of src/script.js in which an event cell that is not Base64 raised an
\* exception ended with the sections of the guest revealed
EventExceptionSurvived ==
    /\ pc = "done"
    /\ variant = "root"
    /\ \E i \in CallsOn("event") : calls[i].result = "throw"
    /\ ~errored
    /\ "civil" \in shown
    /\ shown = sectionsToShow

(***************************************************************************)
(* Properties of the spreadsheet functions (SpecCipher)                    *)
(***************************************************************************)
\* C16: XXTEA_DECRYPT raises nothing, and for a non-empty text and a non-empty
\* key it returns the string decryptFromBase64 returns for them, or the empty
\* string when decryptFromBase64 returns null or raises.
WrapperNeverFails ==
    cpc = "returned" =>
        /\ cret.kind \in {"ok", "error"}
        /\ (ctext # <<>> /\ dkey # <<>>) =>
              /\ cret.kind = "ok"
              /\ cres.kind = "ok" => cret.str = cres.str
              /\ cres.kind \in {"null", "throw"} => cret.str = <<>>

\* decryptFromBase64 raised on a text that is not Base64 and XXTEA_DECRYPT
\* returned the empty string for it
WrapperHidExceptionAsEmpty ==
    /\ cpc = "returned"
    /\ dkey # <<>>
    /\ ctamper = "badsym"
    /\ cres.kind = "throw"
    /\ cret = [kind |-> "ok", str |-> <<>>]

(***************************************************************************)
(* Properties of the scan as a whole (Spec)                                *)
(***************************************************************************)
\* every logged attempt on a code cell has the result the cell of that row
\* gives on its own with the supplied code
AttemptsDependOnOwnRowOnly ==
    \A i \in CallsOn("guest") :
        calls[i].cell = "codigo" =>
            calls[i].result = ReadCell(variant, dataRows[calls[i].row].codigo, code).kind

\* C17: once the table is read no step of processGuestData changes a row of
\* dataRows (the decrypted values of the matched row go to guestRow, a copy),
\* and the result of the attempt on a row is the result that row's code cell
\* gives on its own, whatever rows were tried before it.
ScanLeavesTableAlone ==
    /\ []AttemptsDependOnOwnRowOnly
    /\ [][pc # "sheet" => dataRows' = dataRows]_vars

\* the second row matched after the first had been tried and refused; the
\* table still holds the encrypted name and the copy holds the decrypted one
SecondRowCopiedAfterRefusal ==
    /\ pc = "done"
    /\ guestRow.present
    /\ guestRow.index = 2
    /\ examined = <<1, 2>>
    /\ guestRow.nombre.str = GuestName
    /\ dataRows[2].nombre # GuestName
    /\ dataRows[2].codigo # guestRow.codigo

(***************************************************************************)
(* Properties of the rounds (SpecRounds)                                   *)
(***************************************************************************)
\* C18: encryptUint32Array makes floor(6 + 52 / n) passes of its outer loop
\* over n >= 1 words (58 for 1, 32 for 2, 6 from 53 on); DELTA is 0x9E3779B9;
\* in pass r sum is r * DELTA modulo 2^32 and e is (sum >> 2) & 3.
RoundSchedule ==
    /\ DELTA = -1640531527
    /\ rpc \in {"for", "inner", "encrypted"} => rcount <= 6 + (52 \div Len(rv0))
    /\ rpc = "inner" =>
          /\ rsum = MulDelta(rcount + 1)
          /\ re = (rsum % 16) \div 4
    /\ rpc = "encrypted" =>
          /\ rcount = 6 + (52 \div Len(rv0))
          /\ Len(rv0) = 1 => rcount = 58
          /\ Len(rv0) = 2 => rcount = 32
          /\ Len(rv0) >= 53 => rcount = 6

\* encryptUint32Array returned after 6 passes over 53 words, the last with
\* sum = 6 * DELTA modulo 2^32 and e = 1
SixRoundsOverFiftyThreeWords ==
    /\ rpc = "encrypted"
    /\ Len(rv0) = 53
    /\ rcount = 6
    /\ rsum = -1253254570
    /\ re = 1

\* C19: decryptUint32Array ends, after exactly floor(6 + 52 / n) passes of its
\* outer loop over n >= 1 words, the count of encryptUint32Array: sum starts at
\* that count times DELTA reduced to 32 bits, loses DELTA in each pass, and is
\* 0 after the last pass and after no earlier one.  The passes made never
\* exceed the count, and each pass makes n - 1 steps of its inner loop.
DecryptCountsDownToZero ==
    /\ rpc \in {"dfor", "dinner"} =>
          /\ rcount <= 6 + (52 \div Len(rv0))
          /\ rsum = MulDelta((6 + (52 \div Len(rv0))) - rcount)
          /\ rsum = 0 <=> rcount = 6 + (52 \div Len(rv0))
          /\ rpc = "dinner" => (rp >= 0 /\ rp + rinner = Len(rv0) - 1)
    /\ rpc = "decrypted" => (rcount = 6 + (52 \div Len(rv0)) /\ rsum = 0)

\* decryptUint32Array returned after 23 passes over three words, with sum 0
DecryptReturnedAfterAllRounds ==
    /\ rpc = "decrypted"
    /\ Len(rv0) = 3
    /\ rcount = 23
    /\ rsum = 0
    /\ rv = rv0

\* the single word of an array of one word is both y and z of the statement
\* after the inner loop, which adds mx(sum, v[0], v[0], 0, e, k) to it
WrapFeedsFromItself ==
    (Len(rv0) = 1 /\ rpc = "inner" /\ rpc' = "for") =>
        /\ rz = rv[1]
        /\ ry' = rv[1]
        /\ rv' = <<int32(Add32(rv[1], mx(rsum, rv[1], rv[1], 0, re, rk)))>>
        /\ rv' # rv

\* C20 as stated: the encoding of the empty string with its length is the one
\* word 0, and encryptUint32Array changes the single word of a one-word array
\* once.
SingleWordPerturbedOnce ==
    /\ toUint32Array(<<>>, TRUE) = <<0>>
    /\ (Len(rv0) = 1 /\ rpc = "encrypted") => rcount = 1

\* C20, amended: the encoding of the empty string with its length is the one
\* word 0; on a one-word array encryptUint32Array does not return early, it
\* makes 58 passes of its outer loop, none of which enters the inner loop, and
\* each of which changes the word once, in the statement after the inner loop,
\* with y and z both that word.
SingleWordPerturbedEachRound ==
    /\ [](/\ toUint32Array(<<>>, TRUE) = <<0>>
          /\ Len(rv0) = 1 =>
                /\ rinner = 0
                /\ rpc = "inner" => rp = 0
                /\ rpc = "encrypted" => (rcount = 58 /\ rv # rv0))
    /\ [][WrapFeedsFromItself]_vars

\* encryptUint32Array returned for the encoding of the empty string after 58
\* passes, with a word that is no longer 0
EmptyStringWordTransformed ==
    /\ rpc = "encrypted"
    /\ rv0 = <<0>>
    /\ rcount = 58
    /\ rinner = 0
    /\ rv # <<0>>

(***************************************************************************)
(* Properties of the arithmetic of the rounds (SpecRounds)                 *)
(***************************************************************************)
\* byte i (0 the lowest) of the two's complement form of the 32-bit value x
ByteOf(x, i) ==
    IF i = 0 THEN x % 256
    ELSE IF i = 1 THEN (x \div 256) % 256
    ELSE IF i = 2 THEN (x \div 65536) % 256
    ELSE (x \div 16777216) % 256

\* the signed 32-bit value of the four bytes b0 .. b3 taken modulo 256
FromBytes(b0, b1, b2, b3) ==
    LittleEndianWord(b0 % 256, b1 % 256, b2 % 256, b3 % 256)

\* a + b modulo 2^32, added byte by byte with the carries
ExactSum(a, b) ==
    LET s0 == ByteOf(a, 0) + ByteOf(b, 0)
        s1 == ByteOf(a, 1) + ByteOf(b, 1) + (s0 \div 256)
        s2 == ByteOf(a, 2) + ByteOf(b, 2) + (s1 \div 256)
        s3 == ByteOf(a, 3) + ByteOf(b, 3) + (s2 \div 256)
    IN  FromBytes(s0, s1, s2, s3)

\* a - b modulo 2^32, subtracted byte by byte with the borrows
ExactDifference(a, b) ==
    LET s0 == ByteOf(a, 0) - ByteOf(b, 0)
        s1 == ByteOf(a, 1) - ByteOf(b, 1) + (s0 \div 256)
        s2 == ByteOf(a, 2) - ByteOf(b, 2) + (s1 \div 256)
        s3 == ByteOf(a, 3) - ByteOf(b, 3) + (s2 \div 256)
    IN  FromBytes(s0, s1, s2, s3)

\* MX with its two additions made modulo 2^32
ExactMx(sum, y, z, p, e, k) ==
    BitXor(ExactSum(BitXor(Ushr(z, 5), Shl(y, 2)), BitXor(Ushr(y, 3), Shl(z, 4))),
           ExactSum(BitXor(sum, y), BitXor(KeyWord(k, KeyIndex(p, e)), z)))

\* the words of v and v2 other than word i (counted from 1) are the same
SameExcept(v, v2, i) ==
    /\ Len(v2) = Len(v)
    /\ \A j \in 1 .. Len(v) : j # i => v2[j] = v[j]

\* each statement that updates a word or sum does it modulo 2^32
UpdatesAreModular ==
    /\ (rpc = "for" /\ rpc' = "inner") => rsum' = ExactSum(rsum, DELTA)
    /\ (rpc = "inner" /\ rpc' = "inner") =>
          /\ rv'[rp + 1] = ExactSum(rv[rp + 1], ExactMx(rsum, rv[rp + 2], rz, rp, re, rk))
          /\ SameExcept(rv, rv', rp + 1)
    /\ (rpc = "inner" /\ rpc' = "for") =>
          /\ rv'[Len(rv)] = ExactSum(rv[Len(rv)], ExactMx(rsum, rv[1], rz, Len(rv) - 1, re, rk))
          /\ SameExcept(rv, rv', Len(rv))
    /\ (rpc = "dinner" /\ rpc' = "dinner") =>
          /\ rv'[rp + 1] = ExactDifference(rv[rp + 1], ExactMx(rsum, ry, rv[rp], rp, re, rk))
          /\ SameExcept(rv, rv', rp + 1)
    /\ (rpc = "dinner" /\ rpc' = "dfor") =>
          /\ rv'[1] = ExactDifference(rv[1], ExactMx(rsum, ry, rv[Len(rv)], 0, re, rk))
          /\ SameExcept(rv, rv', 1)
          /\ rsum' = ExactDifference(rsum, DELTA)

\* every word of the buffer and sum are signed 32-bit values
WordsAreThirtyTwoBits ==
    /\ rsum \in (-2147483647 - 1) .. 2147483647
    /\ \A j \in 1 .. Len(rv) : rv[j] \in (-2147483647 - 1) .. 2147483647

EventTableDone ==
    /\ eventCsv.kind = "table"
    /\ pc \in {"reveal", "finally", "done"}
    /\ eventKey.str = EventKeyText

\* row r of the event table was decrypted, and when its cells are whole and its
\* section is one of sectionsToShow, its details were filled in
EventRowHandled(r) ==
    /\ \E i \in CallsOn("event") : calls[i].row = r /\ calls[i].cell = "evento"
    /\ (eventCsv.rows[r].damage = "none"
        /\ SectionNameOf(eventCsv.rows[r].evento) \in sectionsToShow)
           => SectionNameOf(eventCsv.rows[r].evento) \in details

\* C22: a cell of an event row that fails to decrypt (not Base64, or a failed
\* length check) does not keep processEventDetails from decrypting the rows
\* after it and filling in their details.
EventRowsIndependent ==
    EventTableDone =>
        \A r \in 1 .. Len(eventCsv.rows) :
            (/\ eventCsv.rows[r].evento # <<>>
             /\ \E q \in 1 .. (r - 1) : eventCsv.rows[q].damage # "none")
                => EventRowHandled(r)

\* a run of src/script.js in which the first event row had a cell that is not
\* Base64 ended without a decryption of the second row
EventRowsAfterExceptionLost ==
    /\ pc = "done"
    /\ variant = "root"
    /\ EventTableDone
    /\ Len(eventCsv.rows) = 2
    /\ \E i \in CallsOn("event") : calls[i].row = 1 /\ calls[i].result = "throw"
    /\ ~\E i \in CallsOn("event") : calls[i].row = 2
    /\ SectionNameOf(eventCsv.rows[2].evento) \in sectionsToShow
    /\ SectionNameOf(eventCsv.rows[2].evento) \notin details

\* the claim of C22 for src/bodas/script.js, and in src/script.js for a cell
\* that fails the length check
EventRowsIndependentWhereCaught ==
    (EventTableDone /\ ~\E i \in CallsOn("event") : calls[i].result = "throw")
        => \A r \in 1 .. Len(eventCsv.rows) :
              eventCsv.rows[r].evento # <<>> => EventRowHandled(r)

\* a run in which the first event row failed the length check and the details
\* of the second row were filled in
EventRowAfterGarbledFilled ==
    /\ pc = "done"
    /\ EventTableDone
    /\ Len(eventCsv.rows) = 2
    /\ eventCsv.rows[1].damage = "garbled"
    /\ \E i \in CallsOn("event") : calls[i].row = 1 /\ calls[i].result = "null"
    /\ "civil" \in details

(***************************************************************************)
(* Properties of the decode without a length word (SpecCodec)              *)
(***************************************************************************)
\* the bytes b followed by zero bytes up to a length of n
ZeroPadded(b, n) == [i \in 1 .. n |-> IF i <= Len(b) THEN b[i] ELSE 0]

\* the least multiple of 4 that is not below n
NextMultipleOfFour(n) == 4 * ((n + 3) \div 4)

\* C23: toByteArray(v, false) never fails and returns 4 bytes for each word of
\* v, trimming nothing, so toByteArray(toUint32Array(b, false), false) is b
\* followed by zero bytes up to the next multiple of 4.
UntaggedDecodeTrimsNothing ==
    /\ bpc \in {"packed", "unpacked"} =>
          /\ toByteArray(bv, FALSE).kind = "ok"
          /\ Len(toByteArray(bv, FALSE).bytes) = 4 * Len(bv)
    /\ (bpc = "unpacked" /\ ~bflag) =>
          /\ bres.kind = "ok"
          /\ bres.bytes = ZeroPadded(bbytes, NextMultipleOfFour(Len(bbytes)))

\* five bytes, the last of them 0, came back as eight: the five and the three
\* zero bytes that fill the second word
FiveBytesCameBackAsEight ==
    /\ bpc = "unpacked"
    /\ ~bflag
    /\ Len(bbytes) = 5
    /\ bbytes[5] = 0
    /\ bbytes[4] = 255
    /\ Len(bres.bytes) = 8
    /\ bres.bytes[8] = 0

(***************************************************************************)
(* Properties of the two spreadsheet functions together (SpecCipher)       *)
(***************************************************************************)
\* C24: for every string d, the empty one included, and every non-empty key k,
\* XXTEA_DECRYPT(XXTEA_ENCRYPT(d, k), k) is d; for the empty string both
\* functions return '' whatever the key is, the empty key included: the data
\* is tested before the key, and the cipher is not run.
WrapperRoundTrip ==
    /\ (cpc = "read" /\ ckey # <<>> /\ dkey = ckey) => cret = [kind |-> "ok", str |-> cdata]
    /\ (cpc \in {"cell", "read"} /\ cdata = <<>>) => ctext = <<>>
    /\ (cpc = "read" /\ ctext = <<>>) => cret = [kind |-> "ok", str |-> <<>>]
    /\ (cpc \in {"cell", "read"} /\ cdata # <<>> /\ ckey # <<>>) => Len(ctext) >= 8

\* the empty string went through both functions with a key of one character
\* and came back as the empty string from an empty cell
EmptyStringCameBackEmpty ==
    /\ cpc = "read"
    /\ cdata = <<>>
    /\ ckey = <<107>>
    /\ dkey = ckey
    /\ ctext = <<>>
    /\ cret = [kind |-> "ok", str |-> <<>>]

(***************************************************************************)
(* Properties of the size of the ciphertext (SpecCipher)                   *)
(***************************************************************************)
\* the number of words of encryptToBase64 for the string d: ceil(L / 4) + 1
\* for its L bytes
CipherWords(d) == ((Len(getBytes(d)) + 3) \div 4) + 1

\* C25: for a plaintext of L >= 0 bytes and every key, encryptToBase64 hands
\* 4 * (ceil(L / 4) + 1) bytes to Base64, a multiple of 4 that is not 0: the
\* transform returns as many words as it was given.
CiphertextSize ==
    /\ cpc = "encoded" => Len(cv) = CipherWords(cdata)
    /\ cpc = "encrypted" =>
          /\ Len(cv) = CipherWords(cdata)
          /\ toByteArray(cv, FALSE).kind = "ok"
          /\ Len(toByteArray(cv, FALSE).bytes) = 4 * CipherWords(cdata)
          /\ Len(toByteArray(cv, FALSE).bytes) >= 4
    /\ cpc = "stored" => Len(ctext) = 4 * ((4 * CipherWords(cdata) + 2) \div 3)

\* a string of five bytes was encrypted to three words, stored as the sixteen
\* Base64 characters of twelve bytes
FiveBytesStoredAsTwelve ==
    /\ cpc = "stored"
    /\ Len(getBytes(cdata)) = 5
    /\ Len(cv) = 3
    /\ Len(ctext) = 16
    /\ ctext[16] # PadSym

(***************************************************************************)
(* Properties of the length of a tagged decode (SpecDecode)                *)
(***************************************************************************)
\* C26: whenever toByteArray(v, true) returns bytes and not null, v has a
\* trailing word and the number of bytes returned is the value of that word,
\* for sequences of 0 and 1 words and for negative trailing words too.
ReturnedLengthIsTrailingWord ==
    (wpc = "decoded" /\ wres.kind = "ok") =>
        /\ Len(wv0) >= 1
        /\ Len(wres.bytes) = wv0[Len(wv0)]

\* the sequence of no words, which has no trailing word, was decoded to an
\* empty buffer
NoWordsAccepted ==
    /\ wpc = "decoded"
    /\ wv0 = <<>>
    /\ wres = [kind |-> "ok", bytes |-> <<>>]

(***************************************************************************)
(* Properties of the end of processGuestData (Spec)                        *)
(***************************************************************************)
\* the sections that are not to be shown have been removed: all of them by
\* the catch block, the others by one of the two forEach loops
SectionsRemoved ==
    \/ errored /\ shown = {}
    \/ ~errored /\ guestRow.present /\ shown = SectionsOf(dataRows[guestRow.index])
    \/ ~errored /\ ~guestRow.present /\ shown = {"portada", "no-code"}

\* a statement of processGuestData is left to run in every state before its end
StatementLeft ==
    \/ pc = "sheet"
    \/ pc = "scan" /\ (code = <<>> \/ idx > Len(dataRows) \/ idx \in 1 .. Len(dataRows))
    \/ pc = "render"
    \/ pc = "await"
    \/ pc = "events" /\ eventCsv.kind \in {"empty", "table"} /\ eidx >= 1
    \/ pc \in {"reveal", "catch", "finally"}

\* the finally block runs after the removal, hides the spinner and calls
\* setupNavigation(); no other statement does either
OnlyFinallyEnds ==
    (navCalls' # navCalls \/ spinnerHidden' # spinnerHidden) =>
        /\ pc = "finally"
        /\ SectionsRemoved
        /\ shown' = shown
        /\ spinnerHidden'
        /\ navCalls' = navCalls + 1
        /\ pc' = "done"

\* C27: every run of processGuestData (a matched guest, no match, an exception
\* in the body or a rejected event fetch) ends after the spinner was hidden
\* and setupNavigation was called exactly once, both after the sections that
\* are not to be shown were removed.
SpinnerAndNavigationOnce ==
    /\ [](pc = "done" => (navCalls = 1 /\ spinnerHidden /\ SectionsRemoved))
    /\ [](pc # "done" => (navCalls = 0 /\ ~spinnerHidden /\ StatementLeft))
    /\ [][OnlyFinallyEnds]_vars

\* a run in which the event fetch was rejected after a guest had matched ended
\* with every section removed, the spinner hidden and one call of
\* setupNavigation
RejectedFetchStillEnded ==
    /\ pc = "done"
    /\ guestRow.present
    /\ eventKey.kind = "ok"
    /\ eventKey.str # <<>>
    /\ eventCsv = NoCsv
    /\ errored
    /\ shown = {}
    /\ spinnerHidden
    /\ navCalls = 1

=============================================================================
